---- MODULE Spec2Model ----
(***************************************************************************)
(* The chunk store and lifecycle state machine of src/public/world.js,     *)
(* together with the worker protocol of src/public/worldWorker.js.         *)
(*                                                                         *)
(* The orchestrating thread runs each exported function and each message   *)
(* handler to completion (JavaScript run-to-completion), so every action   *)
(* below is one whole call.  There is a single Worker object: requests     *)
(* posted to it are handled one at a time in posting order, and its        *)
(* answers are delivered to worker.onmessage in the order it posted them.  *)
(* Both directions are therefore FIFO sequences.                           *)
(***************************************************************************)
EXTENDS Integers, Sequences, FiniteSets, Bags, TLC

(***************************************************************************)
(* Dimensions.  The program uses CHUNK_SIZE = 16, CHUNK_HEIGHT = 64 and    *)
(* RENDER_DISTANCE = 6; the model keeps the code and scales the numbers    *)
(* down (a region of 13 x 13 chunks is out of reach of the model checker). *)
(* CHUNK_SIZE = 3 keeps a non-boundary column (local x = 1) between the    *)
(* two boundary columns.  RENDER_DISTANCE = 1 gives an active region of    *)
(* 3 x 3 chunks whose centre has all four lateral neighbours inside;       *)
(* RENDER_DISTANCE = 2 gives 5 x 5 chunks with 3 x 3 such chunks, so that  *)
(* a chunk and its lateral neighbour can both be meshed.  The constant is  *)
(* fixed at the start of a behaviour (renderDistance below).               *)
(***************************************************************************)
CHUNK_SIZE == 3
CHUNK_HEIGHT == 1
RenderDistanceSmall == 1
RenderDistanceWide == 2

\* The grids handed to the mesher on its own are this many layers high, so that
\* a block can have a block above and below it.
MeshHeight == 3

\* At most this many worker tasks throw in one behaviour.
MaxFailures == 1
\* updateWorld is not called while more than this many requests and answers are
\* in transit (each call can post a request for every chunk of the region).
MaxInFlight == 10

BLOCK_AIR == -1
BLOCK_STONE == 2
BLOCK_WATER == 3
BLOCK_BEDROCK == 5
BEDROCK_LEVEL == 1

\* CHUNK_STATE
UNKNOWN == 0
LOADING_DATA == 1
DATA_LOADED == 2
MESHING == 3
READY == 4
UNLOADING == 5

\* JavaScript null for chunk.blocks, chunk.mesh and the result of
\* getNeighbourDataForMeshing.  Grids, meshes and neighbour tables are all
\* non-empty functions, so the empty one is free to stand for null.
null == << >>

VARIABLES
    chunkStorage,     \* Map key -> chunk {cx, cz, blocks, mesh, state}
    meshRebuildQueue, \* Set of keys, in insertion order
    toWorker,         \* requests posted with worker.postMessage, not yet handled by the worker
    fromWorker,       \* answers posted by the worker, not yet delivered to worker.onmessage
    scene,            \* children of the main scene (a bag of meshes)
    failures,         \* number of worker tasks that have thrown
    renderDistance,   \* the value of the constant RENDER_DISTANCE, never assigned
    CONFIG            \* CONFIG of worldgen.js in the worker: the grid height and
                      \* the three noise instances, never assigned

vars == <<chunkStorage, meshRebuildQueue, toWorker, fromWorker, scene, failures,
          renderDistance, CONFIG>>

RENDER_DISTANCE == renderDistance

(***************************************************************************)
(* Inputs of the calls.                                                    *)
(***************************************************************************)
\* Player positions handed to updateWorld: a negative x that is not a
\* multiple of CHUNK_SIZE (chunk -1) and a positive one (chunk 0).
PlayerPositions == { <<-1, 0>>, <<CHUNK_SIZE - 1, 0>> }
\* World cells handed to addBlock / removeBlock: a boundary cell (local x = 0 of
\* chunk (1,0), next to chunk (0,0); chunk (1,0) is unloaded when the player
\* goes back to chunk -1), a non-boundary cell of chunk (0,0), and a cell above
\* the world.
WriteCells == { <<CHUNK_SIZE, 0, 1>>, <<1, 0, 1>>, <<1, CHUNK_HEIGHT, 1>> }
\* The cells written in the behaviours in which a worker task may throw.
FailWriteCells == { <<CHUNK_SIZE, 0, 1>> }
\* Player positions two chunks apart (chunks -1 and 1): the centre chunk of one
\* region lies outside the other, so chunks in MESHING and READY are unloaded.
FarPositions == { <<-1, 0>>, <<CHUNK_SIZE, 0>> }
\* The boundary cell again, and the cell next to it: chunk (1,0) is the centre
\* of the region around player chunk 1, and the second write makes it build
\* its mesh a second time.
FarWriteCells == { <<CHUNK_SIZE, 0, 1>>, <<CHUNK_SIZE + 1, 0, 1>> }
\* The player stands in chunk (0,0) of a wide region.
WidePositions == { <<1, 1>> }
\* A non-boundary cell of chunk (0,0) and the boundary cell of chunk (1,0).
WideWriteCells == { <<1, 0, 1>>, <<CHUNK_SIZE, 0, 1>> }
\* Block ids written by the actions (removeBlock writes BLOCK_AIR).
WriteIds == { BLOCK_AIR }
\* World cells and block ids on which getBlock and addBlock are examined in
\* every state: x in chunks -1, 0 and 1, at both x-boundaries of chunk 0 and
\* between them, y below, inside and above the world, z in chunks -1 and 0, at
\* both z-boundaries of chunk 0 and between them.
ProbeCells ==
    {-1, 0, 1, CHUNK_SIZE - 1, CHUNK_SIZE} \X {-1, 0, CHUNK_HEIGHT}
        \X {-1, 0, 1, CHUNK_SIZE - 1}
ProbeIds == { BLOCK_AIR, BLOCK_STONE }

(***************************************************************************)
(* Helpers for keys, grids and sequences.                                  *)
(***************************************************************************)
chunkKey(cx, cz) == <<cx, cz>>

HasKey(cs, cx, cz) == chunkKey(cx, cz) \in DOMAIN cs

\* Math.floor(a / b) for b > 0
FloorDiv(a, b) == IF a >= 0 THEN a \div b ELSE -((-a + b - 1) \div b)

\* The JavaScript remainder a % b for b > 0: it takes the sign of a.
jsRemainder(a, b) == IF a >= 0 THEN a % b ELSE -((-a) % b)

\* THREE.MathUtils.euclideanModulo(a, b) = ((a % b) + b) % b
euclideanModulo(a, b) == jsRemainder(jsRemainder(a, b) + b, b)

RemoveKey(q, key) == SelectSeq(q, LAMBDA k : k # key)

InSeq(q, key) == \E i \in 1..Len(q) : q[i] = key

\* Set.add: an existing key keeps its position
SetAdd(q, key) == IF InSeq(q, key) THEN q ELSE Append(q, key)

\* blocks[lx][ly][lz] of a grid (0-based in the code, 1-based sequences here)
Cell(blocks, lx, ly, lz) == blocks[lx + 1][ly + 1][lz + 1]

SetCell(blocks, lx, ly, lz, id) ==
    [blocks EXCEPT ![lx + 1][ly + 1][lz + 1] = id]

(***************************************************************************)
(* Worker side (worldWorker.js, worldgen.js).                              *)
(***************************************************************************)
(***************************************************************************)
(* The noise engine (perlin.js).  Real numbers are kept as integers:       *)
(* noise values, selectors, weights and heights in thousandths, the        *)
(* coordinates handed to noise() in ten-thousandths, the numbers of the    *)
(* random generator in millionths.  The arithmetic on them is exact.       *)
(***************************************************************************)
Milli == 1000
CoordUnit == 10000
RandomUnit == 1000000

\* The length of p in generatePermutation, 256 in the program and scaled down
\* here, and the length of the doubled table.  The mask & 255 of the code is
\* the euclidean remainder by PERMUTATION_SIZE.
PERMUTATION_SIZE == 8
TABLE_SIZE == 2 * PERMUTATION_SIZE

\* The loop of generatePermutation from step i down to step 1: random is the
\* stream of numbers of the seeded generator, one per step.
RECURSIVE shuffle(_, _, _)
shuffle(p, i, random) ==
    IF i = 0 THEN p
    ELSE LET index == (random[i] * (i + 1)) \div RandomUnit
         IN  shuffle([p EXCEPT ![i + 1] = p[index + 1], ![index + 1] = p[i + 1]],
                     i - 1, random)

\* Variant: the second half of the table is left as new Uint8Array made it.
generatePermutation_LeavesHalf(random) ==
    LET p == shuffle([k \in 1..PERMUTATION_SIZE |-> k - 1], PERMUTATION_SIZE - 1, random)
    IN  [k \in 1..TABLE_SIZE |-> IF k <= PERMUTATION_SIZE THEN p[k] ELSE 0]

\* Perlin.generatePermutation: the table this.permutation (0-based in the
\* code, a sequence here).
generatePermutation(random) ==
    LET p == shuffle([k \in 1..PERMUTATION_SIZE |-> k - 1], PERMUTATION_SIZE - 1, random)
    IN  [k \in 1..TABLE_SIZE |-> p[euclideanModulo(k - 1, PERMUTATION_SIZE) + 1]]

\* new Perlin(seed): the instance.  values are the numbers noise() returns for
\* this table; the model does not reproduce the interpolation.
Perlin(random, values) ==
    [permutation |-> generatePermutation(random), values |-> values]

\* The table indices Perlin.noise computes for a point, in the order of the
\* code: floorX, floorX + 1, A, A + 1, B, B + 1 and the eight corners.
\* Math.floor(x) & 255 is the euclidean remainder of the floor by 256.
noiseIndices(permutation, x, y, z) ==
    LET floorX == euclideanModulo(FloorDiv(x, CoordUnit), PERMUTATION_SIZE)
        floorY == euclideanModulo(FloorDiv(y, CoordUnit), PERMUTATION_SIZE)
        floorZ == euclideanModulo(FloorDiv(z, CoordUnit), PERMUTATION_SIZE)
        A == permutation[floorX + 1] + floorY
        AA == permutation[A + 1] + floorZ
        AB == permutation[A + 2] + floorZ
        B == permutation[floorX + 2] + floorY
        BA == permutation[B + 1] + floorZ
        BB == permutation[B + 2] + floorZ
    IN  << floorX, floorX + 1, A, A + 1, B, B + 1,
           AA, BA, AB, BB, AA + 1, BA + 1, AB + 1, BB + 1 >>

\* Perlin.noise: the eight corner hashes are read from the table; the value
\* interpolated from them is a real number that the model takes from the
\* values of the instance, selected by the hashes.
noise(perlin, x, y, z) ==
    LET at == noiseIndices(perlin.permutation, x, y, z)
        hashes == [c \in 1..8 |-> perlin.permutation[at[6 + c] + 1]]
        sum == hashes[1] + hashes[2] + hashes[3] + hashes[4]
                 + hashes[5] + hashes[6] + hashes[7] + hashes[8]
    IN  perlin.values[(sum % Len(perlin.values)) + 1]

(***************************************************************************)
(* The terrain generator (worldgen.js).                                    *)
(***************************************************************************)
\* CONFIG of worldgen.js (CHUNK_HEIGHT and the noise instances are in the
\* variable CONFIG).
WORLDGEN_CHUNK_HEIGHT == 64
WATER_LEVEL == 20
BIOME_NOISE_SCALE == 15
CAVE_NOISE_SCALE == 500
CAVE_THRESHOLD == 600
CAVE_Y_SCALE == 1000
CAVE_MIN_Y == 5
CAVE_MAX_Y == 50

\* BLOCKS of worldgen.js
BLOCK_GRASS == 0
BLOCK_DIRT == 1
BLOCK_SAND == 4

\* The depth of the last layer of every biome.
Infinity == 2147483647

BIOMES ==
    << [name |-> "desert", noiseCenter |-> 150, noiseRadius |-> 200,
        heightParams |-> [frequency |-> 300, amplitude |-> 4,
                          baseHeight |-> WATER_LEVEL + 5, seedOffset |-> 1],
        blockLayers |-> << [blockId |-> BLOCK_SAND, depth |-> 1],
                           [blockId |-> BLOCK_SAND, depth |-> 4],
                           [blockId |-> BLOCK_STONE, depth |-> Infinity] >>],
       [name |-> "plains", noiseCenter |-> 500, noiseRadius |-> 250,
        heightParams |-> [frequency |-> 100, amplitude |-> 6,
                          baseHeight |-> WATER_LEVEL + 3, seedOffset |-> 2],
        blockLayers |-> << [blockId |-> BLOCK_GRASS, depth |-> 1],
                           [blockId |-> BLOCK_DIRT, depth |-> 4],
                           [blockId |-> BLOCK_STONE, depth |-> Infinity] >>],
       [name |-> "hills", noiseCenter |-> 850, noiseRadius |-> 200,
        heightParams |-> [frequency |-> 150, amplitude |-> 20,
                          baseHeight |-> WATER_LEVEL + 1, seedOffset |-> 3],
        blockLayers |-> << [blockId |-> BLOCK_GRASS, depth |-> 1],
                           [blockId |-> BLOCK_DIRT, depth |-> 4],
                           [blockId |-> BLOCK_STONE, depth |-> Infinity] >>] >>

BiomeNames == {BIOMES[i].name : i \in 1..Len(BIOMES)}

BiomeNamed(name) == BIOMES[CHOOSE i \in 1..Len(BIOMES) : BIOMES[i].name = name]

Abs(a) == IF a < 0 THEN -a ELSE a

Max(a, b) == IF a >= b THEN a ELSE b

RECURSIVE SumTo(_, _)
SumTo(f, n) == IF n = 0 THEN 0 ELSE f[n] + SumTo(f, n - 1)

\* Math.round of the fraction n / d, d > 0: the floor of n / d + 1/2.
Round(n, d) == FloorDiv(2 * n + d, 2 * d)

\* initializeChunkBlocks: a grid of air
initializeChunkBlocks ==
    [x \in 1..CHUNK_SIZE |->
      [y \in 1..CONFIG.CHUNK_HEIGHT |->
        [z \in 1..CHUNK_SIZE |-> BLOCK_AIR]]]

\* getBiomeNoise: the noise mapped from [-1, 1] to [0, 1].  The sum with 1 is
\* even for every value the model uses.
getBiomeNoise(wx, wz) ==
    (noise(CONFIG.biomePerlin, wx * BIOME_NOISE_SCALE, wz * BIOME_NOISE_SCALE, 0)
        + Milli) \div 2

\* Math.max(0, 1 - dist / biome.noiseRadius); the quotient is a whole number
\* of thousandths for the radii of BIOMES.
triangularWeight(biome, biomeNoiseValue) ==
    Max(0, Milli - (Milli * Abs(biomeNoiseValue - biome.noiseCenter))
                       \div biome.noiseRadius)

\* The biome the fallback loop of calculateBiomeWeights ends with: the first of
\* those at the least distance.
closestBiome(biomeNoiseValue) ==
    LET dist(i) == Abs(biomeNoiseValue - BIOMES[i].noiseCenter)
    IN  BIOMES[CHOOSE i \in 1..Len(BIOMES) :
                  /\ \A j \in 1..Len(BIOMES) : dist(i) <= dist(j)
                  /\ \A j \in 1..(i - 1) : dist(j) > dist(i)]

\* Variant: the weights are returned as computed, without the division by
\* their total.
calculateBiomeWeights_KeepsRaw(biomeNoiseValue) ==
    [name \in BiomeNames |->
        [num |-> triangularWeight(BiomeNamed(name), biomeNoiseValue), den |-> Milli]]

\* calculateBiomeWeights: a weight per biome name, as a fraction num / den.
calculateBiomeWeights(biomeNoiseValue) ==
    LET weight == [i \in 1..Len(BIOMES) |-> triangularWeight(BIOMES[i], biomeNoiseValue)]
        totalWeight == SumTo(weight, Len(BIOMES))
    IN  IF totalWeight > 0
        THEN [name \in BiomeNames |->
                [num |-> triangularWeight(BiomeNamed(name), biomeNoiseValue),
                 den |-> totalWeight]]
        ELSE [name \in BiomeNames |->
                [num |-> IF name = closestBiome(biomeNoiseValue).name THEN 1 ELSE 0,
                 den |-> 1]]

\* calculateBiomeHeight, in thousandths
calculateBiomeHeight(biome, wx, wz) ==
    LET p == biome.heightParams
        n == noise(CONFIG.terrainPerlin, wx * p.frequency, wz * p.frequency,
                   p.seedOffset * CoordUnit)
    IN  p.baseHeight * Milli + ((n + Milli) * p.amplitude) \div 2

\* getDominantBiome: the first biome, in the order of the keys, with the
\* highest weight.
getDominantBiome(weights) ==
    LET more(a, b) == a.num * b.den > b.num * a.den
        w(i) == weights[BIOMES[i].name]
    IN  BIOMES[CHOOSE i \in 1..Len(BIOMES) :
                  /\ \A j \in 1..Len(BIOMES) : ~more(w(j), w(i))
                  /\ \A j \in 1..(i - 1) : more(w(i), w(j))]

\* getBlockFromLayers, from layer i on with the depth accumulated before it
RECURSIVE layerFrom(_, _, _, _)
layerFrom(layers, i, cumulativeDepth, depthFromTop) ==
    IF i > Len(layers) THEN BLOCK_STONE
    ELSE IF layers[i].depth = Infinity THEN layers[i].blockId
    ELSE IF depthFromTop < cumulativeDepth + layers[i].depth THEN layers[i].blockId
    ELSE IF layers[i].depth = 1 /\ depthFromTop = 0 THEN layers[i].blockId
    ELSE layerFrom(layers, i + 1, cumulativeDepth + layers[i].depth, depthFromTop)

getBlockFromLayers(layers, terrainHeight, wy) ==
    layerFrom(layers, 1, 0, terrainHeight - wy)

\* Steps 1 to 3 of generateChunkData for the column at (wx, wz): the rounded
\* weighted height and the layers of the dominant biome.  The weights of a
\* column have one denominator, which cancels in weightedHeight / totalWeight.
columnOf(wx, wz) ==
    LET biomeWeights == calculateBiomeWeights(getBiomeNoise(wx, wz))
        weight(i) == biomeWeights[BIOMES[i].name].num
        part == [i \in 1..Len(BIOMES) |->
                    IF weight(i) > 0
                    THEN calculateBiomeHeight(BIOMES[i], wx, wz) * weight(i) ELSE 0]
        used == [i \in 1..Len(BIOMES) |-> IF weight(i) > 0 THEN weight(i) ELSE 0]
        weightedHeight == SumTo(part, Len(BIOMES))
        totalWeight == SumTo(used, Len(BIOMES))
    IN  [terrainHeight |-> IF totalWeight > 0
                           THEN Round(weightedHeight, totalWeight * Milli)
                           ELSE WATER_LEVEL,
         layers |-> getDominantBiome(biomeWeights).blockLayers]

\* The cave noise of a cell, and the test of the carving.
caveNoise(wx, wy, wz) ==
    noise(CONFIG.cavePerlin, wx * CAVE_NOISE_SCALE, wy * CAVE_Y_SCALE,
          wz * CAVE_NOISE_SCALE)

carves(wx, wy, wz) == caveNoise(wx, wy, wz) + Milli > 2 * CAVE_THRESHOLD

\* Variant: the row below BEDROCK_LEVEL is filled like the rows above it.
blockOfRow_NoBedrock(column, wx, wy, wz) ==
    IF wy <= column.terrainHeight
    THEN LET blockId == getBlockFromLayers(column.layers, column.terrainHeight, wy)
         IN  IF blockId # BLOCK_AIR /\ wy >= CAVE_MIN_Y /\ wy <= CAVE_MAX_Y
                /\ carves(wx, wy, wz)
             THEN BLOCK_AIR ELSE blockId
    ELSE IF wy <= WATER_LEVEL THEN BLOCK_WATER
    ELSE BLOCK_AIR

\* Variant: the carving comes after the water and takes any block that is not
\* air.
blockOfRow_CarvesWater(column, wx, wy, wz) ==
    LET blockId == IF wy < BEDROCK_LEVEL THEN BLOCK_BEDROCK
                   ELSE IF wy <= column.terrainHeight
                   THEN getBlockFromLayers(column.layers, column.terrainHeight, wy)
                   ELSE IF wy <= WATER_LEVEL THEN BLOCK_WATER
                   ELSE BLOCK_AIR
    IN  IF wy >= BEDROCK_LEVEL /\ blockId # BLOCK_AIR
           /\ wy >= CAVE_MIN_Y /\ wy <= CAVE_MAX_Y /\ carves(wx, wy, wz)
        THEN BLOCK_AIR ELSE blockId

\* The body of the loop over wy: the block of row wy of a column.
blockOfRow(column, wx, wy, wz) ==
    IF wy < BEDROCK_LEVEL THEN BLOCK_BEDROCK
    ELSE IF wy <= column.terrainHeight
    THEN LET blockId == getBlockFromLayers(column.layers, column.terrainHeight, wy)
         IN  IF blockId # BLOCK_AIR /\ wy >= CAVE_MIN_Y /\ wy <= CAVE_MAX_Y
                /\ carves(wx, wy, wz)
             THEN BLOCK_AIR ELSE blockId
    ELSE IF wy <= WATER_LEVEL THEN BLOCK_WATER
    ELSE BLOCK_AIR

\* The loop over wy for one column: the block of every row.
rowsOf(column, wx, wz) ==
    [wy \in 0..(CONFIG.CHUNK_HEIGHT - 1) |-> blockOfRow(column, wx, wy, wz)]

\* The grid blocks after the cells (lx, wy, lz) of the columns were assigned.
assigned(blocks, rows) ==
    [x \in DOMAIN blocks |->
      [y \in DOMAIN blocks[x] |->
        [z \in DOMAIN blocks[x][y] |->
           IF (x - 1) \in DOMAIN rows /\ (z - 1) \in DOMAIN rows[x - 1]
              /\ (y - 1) \in DOMAIN rows[x - 1][z - 1]
           THEN rows[x - 1][z - 1][y - 1]
           ELSE blocks[x][y][z]]]]

\* generateChunkData: the grid of initializeChunkBlocks with every cell that
\* the three loops visit assigned.
generateChunkData(cx, cz) ==
    assigned(initializeChunkBlocks,
             [lx \in 0..(CHUNK_SIZE - 1) |->
               [lz \in 0..(CHUNK_SIZE - 1) |->
                  rowsOf(columnOf(cx * CHUNK_SIZE + lx, cz * CHUNK_SIZE + lz),
                         cx * CHUNK_SIZE + lx, cz * CHUNK_SIZE + lz)]])

\* The numbers the seeded generator mulberry32 returns during the shuffle, one
\* per step, each in [0, 1): always 0, always the largest number below 1,
\* always 1/2, and streams that change from step to step.
RandomStream(seed) ==
    [i \in 1..(PERMUTATION_SIZE - 1) |->
        IF seed = 0 THEN 0
        ELSE IF seed = 1 THEN RandomUnit - 1
        ELSE IF seed = 2 THEN RandomUnit \div 2
        ELSE ((i + seed) * 618034) % RandomUnit]

\* CONFIG as the worker module builds it: the three instances are seeded with
\* Math.random(), Math.random() + 1 and Math.random() + 2.
WorldgenConfig(height, seed, terrainValues, biomeValues, caveValues) ==
    [CHUNK_HEIGHT |-> height,
     terrainPerlin |-> Perlin(RandomStream(seed), terrainValues),
     biomePerlin |-> Perlin(RandomStream(seed + 1), biomeValues),
     cavePerlin |-> Perlin(RandomStream(seed + 2), caveValues)]

\* CONFIG in the behaviours of the chunk lifecycle, where the grids are
\* CHUNK_HEIGHT layers high.
WorldConfig == WorldgenConfig(CHUNK_HEIGHT, 0, <<0>>, <<0>>, <<0>>)

\* BLOCK_TYPES of world.js; the mesher reads the transparent flag only.
BLOCK_TYPES ==
    [id \in {BLOCK_AIR, 0, 1, BLOCK_STONE, BLOCK_WATER, 4, BLOCK_BEDROCK} |->
        [transparent |-> id \in {BLOCK_WATER, BLOCK_AIR}]]

\* BLOCK_TYPES of the worker: it starts empty and is assigned by an
\* 'initBlocks' message, which main.js never has posted (it does not call
\* initializeWorldResources).
WorkerBlockTypes == << >>

\* DIRECTIONS of the worker: the array literal holds a comment and no element.
DIRECTIONS == << >>

\* DIRECTIONS of the earlier mesher (buildChunkMesh).
DIRECTIONS_perlin ==
    << [dir |-> << 1, 0, 0>>, name |-> "right",
        corners |-> << <<1, 1, 1>>, <<1, 1, 0>>, <<1, 0, 0>>, <<1, 0, 1>> >>],
       [dir |-> <<-1, 0, 0>>, name |-> "left",
        corners |-> << <<0, 1, 0>>, <<0, 1, 1>>, <<0, 0, 1>>, <<0, 0, 0>> >>],
       [dir |-> << 0, 1, 0>>, name |-> "top",
        corners |-> << <<1, 1, 1>>, <<0, 1, 1>>, <<0, 1, 0>>, <<1, 1, 0>> >>],
       [dir |-> << 0, -1, 0>>, name |-> "bottom",
        corners |-> << <<0, 0, 1>>, <<1, 0, 1>>, <<1, 0, 0>>, <<0, 0, 0>> >>],
       [dir |-> << 0, 0, 1>>, name |-> "front",
        corners |-> << <<0, 1, 1>>, <<1, 1, 1>>, <<1, 0, 1>>, <<0, 0, 1>> >>],
       [dir |-> << 0, 0, -1>>, name |-> "back",
        corners |-> << <<1, 1, 0>>, <<0, 1, 0>>, <<0, 0, 0>>, <<1, 0, 0>> >>] >>

\* The getBlock helper of the mesher: the cell at local (lx, ly, lz), taken
\* from the neighbour grid when it lies outside the chunk horizontally.
mesherGetBlock(blocks, neighbourData, chunkSize, chunkHeight, lx, ly, lz) ==
    IF ly < 0 \/ ly >= chunkHeight THEN BLOCK_AIR
    ELSE IF lx >= 0 /\ lx < chunkSize /\ lz >= 0 /\ lz < chunkSize
    THEN Cell(blocks, lx, ly, lz)
    ELSE LET dx == FloorDiv(lx, chunkSize)
             dz == FloorDiv(lz, chunkSize)
             key == <<dx, dz>>
             nx == lx - dx * chunkSize
             nz == lz - dz * chunkSize
         IN  IF \/ neighbourData = null
                \/ key \notin DOMAIN neighbourData
                \/ neighbourData[key].blocks = null
             THEN BLOCK_AIR
             ELSE IF nx < 0 \/ nx >= chunkSize \/ nz < 0 \/ nz >= chunkSize
             THEN BLOCK_AIR
             ELSE Cell(neighbourData[key].blocks, nx, ly, nz)

\* Face culling: the value of shouldRenderFace for a block that is not air and
\* has a type.
shouldRenderFace(currentBlockID, neighbourBlockID, blockTypes) ==
    IF neighbourBlockID = BLOCK_AIR \/ neighbourBlockID \notin DOMAIN blockTypes
    THEN TRUE
    ELSE IF blockTypes[neighbourBlockID].transparent
            /\ ~blockTypes[currentBlockID].transparent
    THEN TRUE
    ELSE FALSE

calculateUVForWorker(faceName, corner) ==
    << IF faceName \in {"right", "left"} THEN corner[3] ELSE corner[1],
       IF faceName \in {"top", "bottom"} THEN corner[3] ELSE corner[2] >>

\* The arrays of one bucket after the faces (in emission order) were pushed:
\* four vertices per face, and six indices that start at the number of
\* vertices pushed before.
faceArrays(faces, worldX, worldZ) ==
    LET n == Len(faces)
        origin(f) == <<worldX + f.x, f.y, worldZ + f.z>>
    IN  [positions |->
            [p \in 1..(12 * n) |->
                LET f == faces[((p - 1) \div 12) + 1]
                    c == (((p - 1) % 12) \div 3) + 1
                    a == ((p - 1) % 3) + 1
                IN  origin(f)[a] + f.d.corners[c][a]],
         normals |->
            [p \in 1..(12 * n) |->
                faces[((p - 1) \div 12) + 1].d.dir[((p - 1) % 3) + 1]],
         uvs |->
            [p \in 1..(8 * n) |->
                LET f == faces[((p - 1) \div 8) + 1]
                    c == (((p - 1) % 8) \div 2) + 1
                IN  calculateUVForWorker(f.d.name, f.d.corners[c])[((p - 1) % 2) + 1]],
         indices |->
            [p \in 1..(6 * n) |->
                4 * ((p - 1) \div 6) + <<0, 1, 2, 2, 1, 3>>[((p - 1) % 6) + 1]]]

\* Variant: one index offset is shared by the two buckets, so that the indices
\* of a face count the vertices pushed into either bucket before it.
meshLoop_SharesOffset(blocks, neighbourData, blockTypes, chunkSize, chunkHeight, directions, worldX, worldZ) ==
    LET nd == Len(directions)
        visited ==
            [k \in 1..(chunkHeight * chunkSize * chunkSize * nd) |->
                LET i == (k - 1) \div nd
                IN  [x |-> i % chunkSize,
                     z |-> (i \div chunkSize) % chunkSize,
                     y |-> i \div (chunkSize * chunkSize),
                     d |-> directions[((k - 1) % nd) + 1]]]
        current(f) == Cell(blocks, f.x, f.y, f.z)
        emitted ==
            SelectSeq(visited, LAMBDA f :
                /\ current(f) # BLOCK_AIR
                /\ current(f) \in DOMAIN blockTypes
                /\ shouldRenderFace(current(f),
                        mesherGetBlock(blocks, neighbourData, chunkSize, chunkHeight,
                            f.x + f.d.dir[1], f.y + f.d.dir[2], f.z + f.d.dir[3]),
                        blockTypes))
        places(tr) ==
            SelectSeq([k \in 1..Len(emitted) |-> k],
                      LAMBDA k : blockTypes[current(emitted[k])].transparent = tr)
        bucket(tr) ==
            [faceArrays([i \in 1..Len(places(tr)) |-> emitted[places(tr)[i]]],
                        worldX, worldZ)
                EXCEPT !.indices =
                    [p \in 1..(6 * Len(places(tr))) |->
                        4 * (places(tr)[((p - 1) \div 6) + 1] - 1)
                          + <<0, 1, 2, 2, 1, 3>>[((p - 1) % 6) + 1]]]
    IN  [opaque |-> bucket(FALSE), transparent |-> bucket(TRUE)]

\* The core meshing loop: y outermost, then z, then x, then the directions.
meshLoop(blocks, neighbourData, blockTypes, chunkSize, chunkHeight, directions, worldX, worldZ) ==
    LET nd == Len(directions)
        visited ==
            [k \in 1..(chunkHeight * chunkSize * chunkSize * nd) |->
                LET i == (k - 1) \div nd
                IN  [x |-> i % chunkSize,
                     z |-> (i \div chunkSize) % chunkSize,
                     y |-> i \div (chunkSize * chunkSize),
                     d |-> directions[((k - 1) % nd) + 1]]]
        current(f) == Cell(blocks, f.x, f.y, f.z)
        emitted ==
            SelectSeq(visited, LAMBDA f :
                /\ current(f) # BLOCK_AIR
                /\ current(f) \in DOMAIN blockTypes
                /\ shouldRenderFace(current(f),
                        mesherGetBlock(blocks, neighbourData, chunkSize, chunkHeight,
                            f.x + f.d.dir[1], f.y + f.d.dir[2], f.z + f.d.dir[3]),
                        blockTypes))
    IN  [opaque |->
            faceArrays(SelectSeq(emitted,
                          LAMBDA f : ~blockTypes[current(f)].transparent),
                       worldX, worldZ),
         transparent |->
            faceArrays(SelectSeq(emitted,
                          LAMBDA f : blockTypes[current(f)].transparent),
                       worldX, worldZ)]

finalizeGeometry(geo) == IF Len(geo.indices) = 0 THEN null ELSE geo

\* The mesher of the worker.
buildMeshGeometryData(chunkData, neighbourData, blockTypes) ==
    LET geometries ==
            meshLoop(chunkData.blocks, neighbourData, blockTypes,
                     chunkData.chunkSize, chunkData.chunkHeight, DIRECTIONS, 0, 0)
    IN  [opaque |-> finalizeGeometry(geometries.opaque),
         transparent |-> finalizeGeometry(geometries.transparent)]

\* The earlier mesher: the geometries of the meshes it adds to the group (a
\* bucket without indices gets no mesh).
buildChunkMesh(chunk, neighbourChunks, blockTypes) ==
    LET chunkSize == Len(chunk.blocks)
        chunkHeight == Len(chunk.blocks[1])
        geometries ==
            meshLoop(chunk.blocks, neighbourChunks, blockTypes, chunkSize, chunkHeight,
                     DIRECTIONS_perlin, chunk.cx * chunkSize, chunk.cz * chunkSize)
    IN  [opaque |-> IF Len(geometries.opaque.indices) > 0
                    THEN geometries.opaque ELSE null,
         transparent |-> IF Len(geometries.transparent.indices) > 0
                         THEN geometries.transparent ELSE null]

\* self.onmessage: the answer to request m when the task returns (ok) or throws.
\* The error message of the code carries only the message text and the stack;
\* the field task records which request failed and is read by no handler.
\* Every geometryData is a new object: the fields blocks and neighbourData
\* record the request it was computed from, so that two geometries of
\* different requests are told apart, and are read by no handler.
WorkerAnswer(m, ok) ==
    IF ~ok THEN [type |-> "error", task |-> m]
    ELSE IF m.type = "generate"
    THEN [type |-> "generated", cx |-> m.cx, cz |-> m.cz,
          blocks |-> generateChunkData(m.cx, m.cz)]
    ELSE [type |-> "meshed", cx |-> m.cx, cz |-> m.cz,
          geometryData |->
             buildMeshGeometryData(m, m.neighbourData, WorkerBlockTypes)
                @@ [blocks |-> m.blocks, neighbourData |-> m.neighbourData]]

(***************************************************************************)
(* Orchestrator side (world.js).  A world value w holds the module-level   *)
(* state the functions read and write: chunkStorage, meshRebuildQueue, the *)
(* requests posted so far (toWorker) and the scene.                        *)
(***************************************************************************)
World(cs, q, tw, sc) ==
    [chunkStorage |-> cs, meshRebuildQueue |-> q, toWorker |-> tw, scene |-> sc]

hasChunkData(cs, cx, cz) ==
    /\ HasKey(cs, cx, cz)
    /\ cs[chunkKey(cx, cz)].blocks # null
    /\ cs[chunkKey(cx, cz)].state \in {DATA_LOADED, MESHING, READY}

\* Variant: the mesh is forgotten by the chunk but not removed from the scene.
disposeChunkMesh_KeepsInScene(w, cx, cz) ==
    LET key == chunkKey(cx, cz) IN
    IF HasKey(w.chunkStorage, cx, cz) /\ w.chunkStorage[key].mesh # null
    THEN [w EXCEPT !.chunkStorage[key].mesh = null]
    ELSE w

disposeChunkMesh(w, cx, cz) ==
    LET key == chunkKey(cx, cz) IN
    IF HasKey(w.chunkStorage, cx, cz) /\ w.chunkStorage[key].mesh # null
    THEN [w EXCEPT !.scene = @ (-) SetToBag({w.chunkStorage[key].mesh}),
                   !.chunkStorage[key].mesh = null]
    ELSE w

\* The THREE.Group built from the worker's geometry, named after the chunk.
buildMeshFromData(w, cx, cz, geometryData) ==
    LET key == chunkKey(cx, cz)
        d == disposeChunkMesh(w, cx, cz)
        group == [name |-> key, geometryData |-> geometryData]
    IN  IF ~HasKey(w.chunkStorage, cx, cz) THEN w
        ELSE [d EXCEPT !.chunkStorage[key].mesh = group,
                       !.scene = @ (+) SetToBag({group})]

requiredOffsets == << <<1, 0>>, <<-1, 0>>, <<0, 1>>, <<0, -1>> >>

NeighbourReady(cs, cx, cz) ==
    /\ HasKey(cs, cx, cz)
    /\ cs[chunkKey(cx, cz)].blocks # null
    /\ cs[chunkKey(cx, cz)].state >= DATA_LOADED

\* Variant: the loop starts at the second offset, so neighbour (cx+1, cz) is
\* not required.
getNeighbourDataForMeshing_SkipsFirst(cs, cx, cz) ==
    IF \E i \in 2..Len(requiredOffsets) :
          ~NeighbourReady(cs, cx + requiredOffsets[i][1], cz + requiredOffsets[i][2])
    THEN null
    ELSE [o \in {requiredOffsets[i] : i \in 1..Len(requiredOffsets)} |->
            [blocks |-> IF HasKey(cs, cx + o[1], cz + o[2])
                        THEN cs[chunkKey(cx + o[1], cz + o[2])].blocks
                        ELSE null]]

getNeighbourDataForMeshing(cs, cx, cz) ==
    IF \E i \in 1..Len(requiredOffsets) :
          ~NeighbourReady(cs, cx + requiredOffsets[i][1], cz + requiredOffsets[i][2])
    THEN null
    ELSE [o \in {requiredOffsets[i] : i \in 1..Len(requiredOffsets)} |->
            [blocks |-> cs[chunkKey(cx + o[1], cz + o[2])].blocks]]

\* Variant: a deferred request leaves the state of the chunk as it is.
requestChunkMesh_KeepsState(w, cx, cz) ==
    LET key == chunkKey(cx, cz)
        cs == w.chunkStorage
    IN  IF \/ ~HasKey(cs, cx, cz)
           \/ cs[key].blocks = null
           \/ cs[key].state < DATA_LOADED
           \/ cs[key].state = MESHING
        THEN w
        ELSE LET neighbourData == getNeighbourDataForMeshing(cs, cx, cz) IN
             IF neighbourData = null
             THEN w
             ELSE [w EXCEPT !.chunkStorage[key].state = MESHING,
                            !.toWorker = Append(@,
                                [type |-> "mesh", cx |-> cx, cz |-> cz,
                                 blocks |-> cs[key].blocks,
                                 chunkSize |-> CHUNK_SIZE,
                                 chunkHeight |-> CHUNK_HEIGHT,
                                 neighbourData |-> neighbourData])]

requestChunkMesh(w, cx, cz) ==
    LET key == chunkKey(cx, cz)
        cs == w.chunkStorage
    IN  IF \/ ~HasKey(cs, cx, cz)
           \/ cs[key].blocks = null
           \/ cs[key].state < DATA_LOADED
           \/ cs[key].state = MESHING
        THEN w
        ELSE LET neighbourData == getNeighbourDataForMeshing(cs, cx, cz) IN
             IF neighbourData = null
             THEN [w EXCEPT !.chunkStorage[key].state = DATA_LOADED]
             ELSE [w EXCEPT !.chunkStorage[key].state = MESHING,
                            !.toWorker = Append(@,
                                [type |-> "mesh", cx |-> cx, cz |-> cz,
                                 blocks |-> cs[key].blocks,
                                 chunkSize |-> CHUNK_SIZE,
                                 chunkHeight |-> CHUNK_HEIGHT,
                                 neighbourData |-> neighbourData])]

RECURSIVE updateNeighboursFrom(_, _, _, _)
updateNeighboursFrom(w, cx, cz, i) ==
    IF i > Len(requiredOffsets) THEN w
    ELSE LET nx == cx + requiredOffsets[i][1]
             nz == cz + requiredOffsets[i][2]
             w1 == IF /\ HasKey(w.chunkStorage, nx, nz)
                      /\ w.chunkStorage[chunkKey(nx, nz)].state = DATA_LOADED
                   THEN requestChunkMesh(w, nx, nz)
                   ELSE w
         IN  updateNeighboursFrom(w1, cx, cz, i + 1)

\* Variant: the loop starts at the second offset, so neighbour (cx+1, cz) is
\* not looked at.
updateNeighboursOf_SkipsFirst(w, cx, cz) == updateNeighboursFrom(w, cx, cz, 2)

updateNeighboursOf(w, cx, cz) == updateNeighboursFrom(w, cx, cz, 1)

\* Variant: no check for an existing record.
requestChunkGeneration_NoGuard(w, cx, cz) ==
    [w EXCEPT
        !.chunkStorage = (chunkKey(cx, cz) :>
            [cx |-> cx, cz |-> cz, blocks |-> null, mesh |-> null,
             state |-> LOADING_DATA]) @@ @,
        !.toWorker = Append(@, [type |-> "generate", cx |-> cx, cz |-> cz])]

requestChunkGeneration(w, cx, cz) ==
    IF HasKey(w.chunkStorage, cx, cz) THEN w
    ELSE [w EXCEPT
            !.chunkStorage = @ @@ (chunkKey(cx, cz) :>
                [cx |-> cx, cz |-> cz, blocks |-> null, mesh |-> null,
                 state |-> LOADING_DATA]),
            !.toWorker = Append(@, [type |-> "generate", cx |-> cx, cz |-> cz])]

\* Variant: the 'generated' case advances the state without storing the grid.
onGenerated_DropsBlocks(w, data) ==
    LET key == chunkKey(data.cx, data.cz) IN
    IF HasKey(w.chunkStorage, data.cx, data.cz)
       /\ w.chunkStorage[key].state = LOADING_DATA
    THEN requestChunkMesh(
            [w EXCEPT !.chunkStorage[key].state = DATA_LOADED],
            data.cx, data.cz)
    ELSE w

\* worker.onmessage, case 'generated'
onGenerated(w, data) ==
    LET key == chunkKey(data.cx, data.cz) IN
    IF HasKey(w.chunkStorage, data.cx, data.cz)
       /\ w.chunkStorage[key].state = LOADING_DATA
    THEN requestChunkMesh(
            [w EXCEPT !.chunkStorage[key].blocks = data.blocks,
                      !.chunkStorage[key].state = DATA_LOADED],
            data.cx, data.cz)
    ELSE w

\* Variant: the 'meshed' case marks the chunk LOADING_DATA instead of READY.
onMeshed_MarksLoading(w, data) ==
    LET key == chunkKey(data.cx, data.cz) IN
    IF HasKey(w.chunkStorage, data.cx, data.cz)
       /\ w.chunkStorage[key].state = MESHING
    THEN LET b == buildMeshFromData(w, data.cx, data.cz, data.geometryData)
         IN  updateNeighboursOf([b EXCEPT !.chunkStorage[key].state = LOADING_DATA],
                                data.cx, data.cz)
    ELSE w

\* Variant: the 'meshed' case checks only that the record exists.
onMeshed_AnyState(w, data) ==
    LET key == chunkKey(data.cx, data.cz) IN
    IF HasKey(w.chunkStorage, data.cx, data.cz)
    THEN LET b == buildMeshFromData(w, data.cx, data.cz, data.geometryData)
         IN  updateNeighboursOf([b EXCEPT !.chunkStorage[key].state = READY],
                                data.cx, data.cz)
    ELSE w

\* worker.onmessage, case 'meshed'
onMeshed(w, data) ==
    LET key == chunkKey(data.cx, data.cz) IN
    IF HasKey(w.chunkStorage, data.cx, data.cz)
       /\ w.chunkStorage[key].state = MESHING
    THEN LET b == buildMeshFromData(w, data.cx, data.cz, data.geometryData)
         IN  updateNeighboursOf([b EXCEPT !.chunkStorage[key].state = READY],
                                data.cx, data.cz)
    ELSE w

\* worker.onmessage
onmessage(w, m) ==
    IF m.type = "generated" THEN onGenerated(w, m)
    ELSE IF m.type = "meshed" THEN onMeshed(w, m)
    ELSE w

\* Variant: the division rounds towards zero instead of down.
worldToVoxelCoords_Truncates(x, y, z) ==
    [cx |-> IF x >= 0 THEN x \div CHUNK_SIZE ELSE -((-x) \div CHUNK_SIZE),
     cz |-> IF z >= 0 THEN z \div CHUNK_SIZE ELSE -((-z) \div CHUNK_SIZE),
     lx |-> euclideanModulo(x, CHUNK_SIZE), ly |-> y,
     lz |-> euclideanModulo(z, CHUNK_SIZE)]

worldToVoxelCoords(x, y, z) ==
    [cx |-> FloorDiv(x, CHUNK_SIZE), cz |-> FloorDiv(z, CHUNK_SIZE),
     lx |-> euclideanModulo(x, CHUNK_SIZE), ly |-> y,
     lz |-> euclideanModulo(z, CHUNK_SIZE)]

\* Variant: the lookup indexes the grid with the local x and z swapped.
getBlock_SwapsAxes(cs, x, y, z) ==
    LET cx == FloorDiv(x, CHUNK_SIZE)
        cz == FloorDiv(z, CHUNK_SIZE)
    IN  IF y < 0 \/ y >= CHUNK_HEIGHT THEN BLOCK_AIR
        ELSE IF \/ ~HasKey(cs, cx, cz)
                \/ cs[chunkKey(cx, cz)].blocks = null
                \/ cs[chunkKey(cx, cz)].state < DATA_LOADED
        THEN BLOCK_AIR
        ELSE Cell(cs[chunkKey(cx, cz)].blocks,
                  euclideanModulo(z, CHUNK_SIZE), y, euclideanModulo(x, CHUNK_SIZE))

getBlock(cs, x, y, z) ==
    LET v == worldToVoxelCoords(x, y, z) IN
    IF v.ly < 0 \/ v.ly >= CHUNK_HEIGHT THEN BLOCK_AIR
    ELSE IF \/ ~HasKey(cs, v.cx, v.cz)
            \/ cs[chunkKey(v.cx, v.cz)].blocks = null
            \/ cs[chunkKey(v.cx, v.cz)].state < DATA_LOADED
    THEN BLOCK_AIR
    ELSE Cell(cs[chunkKey(v.cx, v.cz)].blocks, v.lx, v.ly, v.lz)

flagChunkForRebuild(w, cx, cz) ==
    LET key == chunkKey(cx, cz)
        cs == w.chunkStorage
    IN  IF /\ HasKey(cs, cx, cz)
           /\ cs[key].blocks # null
           /\ cs[key].state >= DATA_LOADED
           /\ cs[key].state # MESHING
        THEN [w EXCEPT !.meshRebuildQueue = SetAdd(@, key)]
        ELSE w

\* Variant: a write to a chunk without data is remembered in the rebuild queue
\* instead of being ignored.
addBlock_QueuesRejected(w, x, y, z, blockId) ==
    LET v == worldToVoxelCoords(x, y, z)
        key == chunkKey(v.cx, v.cz)
        cs == w.chunkStorage
    IN  IF v.ly < 0 \/ v.ly >= CHUNK_HEIGHT THEN w
        ELSE IF \/ ~HasKey(cs, v.cx, v.cz)
                \/ cs[key].blocks = null
                \/ cs[key].state < DATA_LOADED
        THEN [w EXCEPT !.meshRebuildQueue = SetAdd(@, key)]
        ELSE IF Cell(cs[key].blocks, v.lx, v.ly, v.lz) = blockId THEN w
        ELSE LET w0 == [w EXCEPT !.chunkStorage[key].blocks =
                                    SetCell(@, v.lx, v.ly, v.lz, blockId)]
                 w1 == flagChunkForRebuild(w0, v.cx, v.cz)
                 w2 == IF v.lx = 0 THEN flagChunkForRebuild(w1, v.cx - 1, v.cz) ELSE w1
                 w3 == IF v.lx = CHUNK_SIZE - 1
                       THEN flagChunkForRebuild(w2, v.cx + 1, v.cz) ELSE w2
                 w4 == IF v.lz = 0 THEN flagChunkForRebuild(w3, v.cx, v.cz - 1) ELSE w3
                 w5 == IF v.lz = CHUNK_SIZE - 1
                       THEN flagChunkForRebuild(w4, v.cx, v.cz + 1) ELSE w4
             IN  w5

\* Variant: the two x-boundaries flag the neighbour on the wrong side.
addBlock_SwapsNeighbours(w, x, y, z, blockId) ==
    LET v == worldToVoxelCoords(x, y, z)
        key == chunkKey(v.cx, v.cz)
        cs == w.chunkStorage
    IN  IF v.ly < 0 \/ v.ly >= CHUNK_HEIGHT THEN w
        ELSE IF \/ ~HasKey(cs, v.cx, v.cz)
                \/ cs[key].blocks = null
                \/ cs[key].state < DATA_LOADED
        THEN w
        ELSE IF Cell(cs[key].blocks, v.lx, v.ly, v.lz) = blockId THEN w
        ELSE LET w0 == [w EXCEPT !.chunkStorage[key].blocks =
                                    SetCell(@, v.lx, v.ly, v.lz, blockId)]
                 w1 == flagChunkForRebuild(w0, v.cx, v.cz)
                 w2 == IF v.lx = 0 THEN flagChunkForRebuild(w1, v.cx + 1, v.cz) ELSE w1
                 w3 == IF v.lx = CHUNK_SIZE - 1
                       THEN flagChunkForRebuild(w2, v.cx - 1, v.cz) ELSE w2
                 w4 == IF v.lz = 0 THEN flagChunkForRebuild(w3, v.cx, v.cz - 1) ELSE w3
                 w5 == IF v.lz = CHUNK_SIZE - 1
                       THEN flagChunkForRebuild(w4, v.cx, v.cz + 1) ELSE w4
             IN  w5

addBlock(w, x, y, z, blockId) ==
    LET v == worldToVoxelCoords(x, y, z)
        key == chunkKey(v.cx, v.cz)
        cs == w.chunkStorage
    IN  IF v.ly < 0 \/ v.ly >= CHUNK_HEIGHT THEN w
        ELSE IF \/ ~HasKey(cs, v.cx, v.cz)
                \/ cs[key].blocks = null
                \/ cs[key].state < DATA_LOADED
        THEN w
        ELSE IF Cell(cs[key].blocks, v.lx, v.ly, v.lz) = blockId THEN w
        ELSE LET w0 == [w EXCEPT !.chunkStorage[key].blocks =
                                    SetCell(@, v.lx, v.ly, v.lz, blockId)]
                 w1 == flagChunkForRebuild(w0, v.cx, v.cz)
                 w2 == IF v.lx = 0 THEN flagChunkForRebuild(w1, v.cx - 1, v.cz) ELSE w1
                 w3 == IF v.lx = CHUNK_SIZE - 1
                       THEN flagChunkForRebuild(w2, v.cx + 1, v.cz) ELSE w2
                 w4 == IF v.lz = 0 THEN flagChunkForRebuild(w3, v.cx, v.cz - 1) ELSE w3
                 w5 == IF v.lz = CHUNK_SIZE - 1
                       THEN flagChunkForRebuild(w4, v.cx, v.cz + 1) ELSE w4
             IN  w5

\* The loop of processRebuildQueue over the snapshot keys, from position i on.
RECURSIVE processRebuildFrom(_, _, _, _, _)
processRebuildFrom(w, keys, i, processed, maxPerFrame) ==
    IF i > Len(keys) \/ processed >= maxPerFrame THEN w
    ELSE LET key == keys[i]
             cs == w.chunkStorage
             wDel == [w EXCEPT !.meshRebuildQueue = RemoveKey(@, key)]
         IN  IF /\ key \in DOMAIN cs
                /\ cs[key].state # MESHING
                /\ cs[key].state >= DATA_LOADED
             THEN LET r == requestChunkMesh(w, key[1], key[2]) IN
                  processRebuildFrom(
                      [r EXCEPT !.meshRebuildQueue = RemoveKey(@, key)],
                      keys, i + 1, processed + 1, maxPerFrame)
             ELSE IF key \notin DOMAIN cs \/ cs[key].state = UNLOADING
             THEN processRebuildFrom(wDel, keys, i + 1, processed, maxPerFrame)
             ELSE IF cs[key].state = MESHING
             THEN processRebuildFrom(wDel, keys, i + 1, processed, maxPerFrame)
             ELSE processRebuildFrom(w, keys, i + 1, processed, maxPerFrame)

processRebuildQueue(w, maxPerFrame) ==
    processRebuildFrom(w, w.meshRebuildQueue, 1, 0, maxPerFrame)

\* The coordinates visited by phase 1 of updateWorld, in loop order.
InRangeSeq(playerCX, playerCZ) ==
    LET side == 2 * RENDER_DISTANCE + 1 IN
    [i \in 1..(side * side) |->
        chunkKey(playerCX - RENDER_DISTANCE + ((i - 1) \div side),
                 playerCZ - RENDER_DISTANCE + ((i - 1) % side))]

RECURSIVE updateWorldPhase1(_, _, _)
updateWorldPhase1(w, coords, i) ==
    IF i > Len(coords) THEN w
    ELSE LET key == coords[i]
             cs == w.chunkStorage
             w1 == IF key \notin DOMAIN cs \/ cs[key].state = UNKNOWN
                   THEN requestChunkGeneration(w, key[1], key[2])
                   ELSE IF cs[key].state = UNLOADING
                   THEN [w EXCEPT !.chunkStorage[key].state = READY,
                                  !.scene = IF cs[key].mesh # null
                                            THEN @ (+) SetToBag({cs[key].mesh})
                                            ELSE @]
                   ELSE w
         IN  updateWorldPhase1(w1, coords, i + 1)

\* Variant: phase 2 deletes the records without disposing of their meshes.
RECURSIVE updateWorldPhase2_KeepsGeometry(_, _)
updateWorldPhase2_KeepsGeometry(w, toUnload) ==
    IF toUnload = {} THEN w
    ELSE LET key == CHOOSE k \in toUnload : TRUE IN
         updateWorldPhase2_KeepsGeometry(
            [w EXCEPT !.chunkStorage =
                [k \in (DOMAIN w.chunkStorage) \ {key} |-> w.chunkStorage[k]]],
            toUnload \ {key})

\* Phase 2 of updateWorld: the order in which the Map is walked does not
\* matter, every record outside the range is disposed of and deleted.
RECURSIVE updateWorldPhase2(_, _)
updateWorldPhase2(w, toUnload) ==
    IF toUnload = {} THEN w
    ELSE LET key == CHOOSE k \in toUnload : TRUE
             d == disposeChunkMesh(w, key[1], key[2])
         IN  updateWorldPhase2(
                [d EXCEPT !.chunkStorage =
                    [k \in (DOMAIN d.chunkStorage) \ {key} |-> d.chunkStorage[k]]],
                toUnload \ {key})

updateWorld(w, px, pz) ==
    LET playerCX == FloorDiv(px, CHUNK_SIZE)
        playerCZ == FloorDiv(pz, CHUNK_SIZE)
        coords == InRangeSeq(playerCX, playerCZ)
        inRangeKeys == {coords[i] : i \in 1..Len(coords)}
        w1 == updateWorldPhase1(w, coords, 1)
        w2 == updateWorldPhase2(w1,
                {k \in DOMAIN w1.chunkStorage :
                    k \notin inRangeKeys /\ w1.chunkStorage[k].state # UNLOADING})
    IN  processRebuildQueue(w2, 1)

(***************************************************************************)
(* The state machine.                                                      *)
(***************************************************************************)
Now == World(chunkStorage, meshRebuildQueue, toWorker, scene)

Becomes(w) ==
    /\ chunkStorage' = w.chunkStorage
    /\ meshRebuildQueue' = w.meshRebuildQueue
    /\ toWorker' = w.toWorker
    /\ scene' = w.scene

Init ==
    /\ chunkStorage = << >>
    /\ meshRebuildQueue = << >>
    /\ toWorker = << >>
    /\ fromWorker = << >>
    /\ scene = EmptyBag
    /\ failures = 0
    /\ renderDistance = RenderDistanceSmall
    /\ CONFIG = WorldConfig

\* animate(): updateWorld(player.position.x, player.position.z)
UpdateWorld(positions) ==
    \E p \in positions :
        /\ Len(toWorker) + Len(fromWorker) <= MaxInFlight
        /\ Becomes(updateWorld(Now, p[1], p[2]))
        /\ UNCHANGED <<fromWorker, failures, renderDistance, CONFIG>>

\* animate(): processRebuildQueue()
ProcessRebuildQueue ==
    /\ Becomes(processRebuildQueue(Now, 1))
    /\ UNCHANGED <<fromWorker, failures, renderDistance, CONFIG>>

\* onMouseDown(): addBlock / removeBlock
AddBlock(cells) ==
    \E c \in cells, id \in WriteIds :
        /\ Becomes(addBlock(Now, c[1], c[2], c[3], id))
        /\ UNCHANGED <<fromWorker, failures, renderDistance, CONFIG>>

\* The worker handles its oldest request; the task returns.
WorkerRun ==
    /\ toWorker # << >>
    /\ fromWorker' = Append(fromWorker, WorkerAnswer(Head(toWorker), TRUE))
    /\ toWorker' = Tail(toWorker)
    /\ UNCHANGED <<chunkStorage, meshRebuildQueue, scene, failures, renderDistance, CONFIG>>

\* The worker handles its oldest request; the task throws and the catch
\* block posts an error message.
WorkerThrow ==
    /\ toWorker # << >>
    /\ failures < MaxFailures
    /\ fromWorker' = Append(fromWorker, WorkerAnswer(Head(toWorker), FALSE))
    /\ toWorker' = Tail(toWorker)
    /\ failures' = failures + 1
    /\ UNCHANGED <<chunkStorage, meshRebuildQueue, scene, renderDistance, CONFIG>>

\* worker.onmessage runs for the oldest undelivered answer.
Deliver ==
    /\ fromWorker # << >>
    /\ Becomes(onmessage(Now, Head(fromWorker)))
    /\ fromWorker' = Tail(fromWorker)
    /\ UNCHANGED <<failures, renderDistance, CONFIG>>

\* Every worker task returns.
Next ==
    \/ UpdateWorld(PlayerPositions)
    \/ ProcessRebuildQueue
    \/ AddBlock(WriteCells)
    \/ WorkerRun
    \/ Deliver

Spec == Init /\ [][Next]_vars

\* Every worker task returns, the player stays in chunk (0,0), so that the
\* active region is fixed, and the program keeps running: animate() calls
\* processRebuildQueue in every frame, the worker handles every request it was
\* sent, and every answer it posted is handed to worker.onmessage.  The
\* player may stop editing.
StillPositions == { <<CHUNK_SIZE - 1, 0>> }

NextLive ==
    \/ UpdateWorld(StillPositions)
    \/ ProcessRebuildQueue
    \/ AddBlock(WriteCells)
    \/ WorkerRun
    \/ Deliver

SpecLive ==
    /\ Init
    /\ [][NextLive]_vars
    /\ WF_vars(ProcessRebuildQueue)
    /\ WF_vars(WorkerRun)
    /\ WF_vars(Deliver)

\* Every worker task returns; the player jumps two chunks at a time.
NextFar ==
    \/ UpdateWorld(FarPositions)
    \/ ProcessRebuildQueue
    \/ AddBlock(FarWriteCells)
    \/ WorkerRun
    \/ Deliver

SpecFar == Init /\ [][NextFar]_vars

\* Worker tasks may throw.
NextFail ==
    \/ UpdateWorld(PlayerPositions)
    \/ ProcessRebuildQueue
    \/ AddBlock(FailWriteCells)
    \/ WorkerRun
    \/ WorkerThrow
    \/ Deliver

SpecFail == Init /\ [][NextFail]_vars

\* Every worker task returns; the active region is 5 x 5 chunks.
InitWide ==
    /\ chunkStorage = << >>
    /\ meshRebuildQueue = << >>
    /\ toWorker = << >>
    /\ fromWorker = << >>
    /\ scene = EmptyBag
    /\ failures = 0
    /\ renderDistance = RenderDistanceWide
    /\ CONFIG = WorldConfig

NextWide ==
    \/ UpdateWorld(WidePositions)
    \/ ProcessRebuildQueue
    \/ AddBlock(WideWriteCells)
    \/ WorkerRun
    \/ Deliver

SpecWide == InitWide /\ [][NextWide]_vars

(***************************************************************************)
(* The mesher on its own.  A mesh request is in flight for chunk (0,0),    *)
(* whose record has been discarded since; the grids it carries hold one    *)
(* block under study and blocks of one kind next to it in some of the six  *)
(* directions, in the chunk itself or in a lateral neighbour.              *)
(***************************************************************************)
\* A transparent block type other than water ("Add other blocks...").
OtherTransparent == BLOCK_BEDROCK + 1

MeshBlockTypes == BLOCK_TYPES @@ (OtherTransparent :> [transparent |-> TRUE])

\* Where the block under study sits: in the middle of the chunk, at its
\* x-boundary, and in the bottom layer at its z-boundary.
StudyCells == { <<1, 1, 1>>, <<0, 1, 1>>, <<1, 0, CHUNK_SIZE - 1>> }

StudyIds == { BLOCK_STONE, BLOCK_WATER, OtherTransparent }

\* The world around the chunk: block id at cell at, block sid at the cells next
\* to it in the directions of around, air elsewhere.
StudyWorld(at, id, around, sid, x, y, z) ==
    IF <<x, y, z>> = at THEN id
    ELSE IF \E j \in around :
               <<x, y, z>> = << at[1] + DIRECTIONS_perlin[j].dir[1],
                               at[2] + DIRECTIONS_perlin[j].dir[2],
                               at[3] + DIRECTIONS_perlin[j].dir[3] >>
    THEN sid
    ELSE BLOCK_AIR

StudyGrid(at, id, around, sid, cx, cz) ==
    [x \in 1..CHUNK_SIZE |->
      [y \in 1..MeshHeight |->
        [z \in 1..CHUNK_SIZE |->
           StudyWorld(at, id, around, sid,
                      cx * CHUNK_SIZE + x - 1, y - 1, cz * CHUNK_SIZE + z - 1)]]]

StudyRequest(at, id, around, sid) ==
    [type |-> "mesh", cx |-> 0, cz |-> 0,
     blocks |-> StudyGrid(at, id, around, sid, 0, 0),
     chunkSize |-> CHUNK_SIZE,
     chunkHeight |-> MeshHeight,
     neighbourData |->
        [o \in {requiredOffsets[i] : i \in 1..Len(requiredOffsets)} |->
            [blocks |-> StudyGrid(at, id, around, sid, o[1], o[2])]]]

InitMesh ==
    /\ chunkStorage = << >>
    /\ meshRebuildQueue = << >>
    /\ \E at \in StudyCells, id \in StudyIds, sid \in StudyIds,
          around \in SUBSET (1..Len(DIRECTIONS_perlin)) :
          toWorker = << StudyRequest(at, id, around, sid) >>
    /\ fromWorker = << >>
    /\ scene = EmptyBag
    /\ failures = 0
    /\ renderDistance = RenderDistanceSmall
    /\ CONFIG = WorldConfig

NextMesh ==
    \/ WorkerRun
    \/ Deliver

SpecMesh == InitMesh /\ [][NextMesh]_vars

(***************************************************************************)
(* The generator on its own.  A generate request is in flight for a chunk  *)
(* whose record has been discarded since; the grid is WORLDGEN_CHUNK_HEIGHT *)
(* layers high, and the noise instances differ from behaviour to           *)
(* behaviour in their tables and in the values they return.                *)
(***************************************************************************)
Seeds == 0..3

\* Values of the biome noise: selectors -0.1 (below every biome), 0.15
\* (desert), 0.3 (desert and plains), 0.5 (plains), 0.7 (plains and hills),
\* 0.85 (hills) and 1.1 (above every biome).
BiomeNoiseValues ==
    { <<-1200>>, <<-700>>, <<-400>>, <<0>>, <<400>>, <<700>>, <<1200>> }

\* Values of the terrain noise: the lowest one puts the hills below the water.
TerrainNoiseValues == { <<-1200, 0>>, <<0, 1000>>, <<-1200, -1200>> }

\* Values of the cave noise: below and above the threshold, at the threshold
\* (0.2 is remapped to 0.6) and just above it, and above it everywhere.
CaveNoiseValues == { <<-1000, 1000>>, <<200, 202>>, <<1000, 1000>> }

GeneratedChunks == { <<0, 0>>, <<-1, -1>> }

InitGen ==
    /\ chunkStorage = << >>
    /\ meshRebuildQueue = << >>
    /\ \E key \in GeneratedChunks :
          toWorker = << [type |-> "generate", cx |-> key[1], cz |-> key[2]] >>
    /\ fromWorker = << >>
    /\ scene = EmptyBag
    /\ failures = 0
    /\ renderDistance = RenderDistanceSmall
    /\ \E seed \in Seeds, terrainValues \in TerrainNoiseValues,
          biomeValues \in BiomeNoiseValues, caveValues \in CaveNoiseValues :
          CONFIG = WorldgenConfig(WORLDGEN_CHUNK_HEIGHT, seed, terrainValues,
                                  biomeValues, caveValues)

NextGen ==
    \/ WorkerRun
    \/ Deliver

SpecGen == InitGen /\ [][NextGen]_vars

(***************************************************************************)
(* The noise engine on its own.  The permutation tables are shuffled with  *)
(* every stream of numbers that takes, step by step, the least value, the  *)
(* middle or the greatest value below 1; a generate request is in flight   *)
(* for a chunk at negative coordinates and a grid CHUNK_HEIGHT layers high. *)
(***************************************************************************)
StreamValues == {0, RandomUnit \div 2, RandomUnit - 1}

RandomStreams == [1..(PERMUTATION_SIZE - 1) -> StreamValues]

\* The stream read backwards: the seed of another instance.
Backwards(random) ==
    [i \in 1..(PERMUTATION_SIZE - 1) |-> random[PERMUTATION_SIZE - i]]

InitNoise ==
    /\ chunkStorage = << >>
    /\ meshRebuildQueue = << >>
    /\ toWorker = << [type |-> "generate", cx |-> -1, cz |-> -1] >>
    /\ fromWorker = << >>
    /\ scene = EmptyBag
    /\ failures = 0
    /\ renderDistance = RenderDistanceSmall
    /\ \E random \in RandomStreams :
          CONFIG = [CHUNK_HEIGHT |-> CHUNK_HEIGHT,
                    terrainPerlin |-> Perlin(random, <<0>>),
                    biomePerlin |-> Perlin(Backwards(random), <<0>>),
                    cavePerlin |-> Perlin(random, <<0>>)]

NextNoise ==
    \/ WorkerRun
    \/ Deliver

SpecNoise == InitNoise /\ [][NextNoise]_vars

(***************************************************************************)
(* Vocabulary of the properties.                                           *)
(***************************************************************************)
Stored == DOMAIN chunkStorage

LateralNeighbours(key) ==
    {chunkKey(key[1] + requiredOffsets[i][1], key[2] + requiredOffsets[i][2]) :
        i \in 1..Len(requiredOffsets)}

\* The record of key exists and holds a block grid.
HoldsData(key) == key \in Stored /\ chunkStorage[key].blocks # null

AllNeighboursHoldData(key) == \A n \in LateralNeighbours(key) : HoldsData(n)

\* Requests posted by the step, in posting order.
NewRequests ==
    IF Len(toWorker') > Len(toWorker)
    THEN SubSeq(toWorker', Len(toWorker) + 1, Len(toWorker'))
    ELSE << >>

\* Tasks of a kind dispatched for a coordinate and not yet answered: the request
\* waits for the worker, or its answer waits for worker.onmessage.
TasksIn(tw, fw, request, answer, key) ==
    Cardinality({i \in 1..Len(tw) :
                    /\ tw[i].type = request
                    /\ chunkKey(tw[i].cx, tw[i].cz) = key})
    + Cardinality({i \in 1..Len(fw) :
                    /\ fw[i].type = answer
                    /\ chunkKey(fw[i].cx, fw[i].cz) = key})

TasksInFlight(request, answer, key) ==
    TasksIn(toWorker, fromWorker, request, answer, key)

\* Coordinates named by a stored record or by a message in transit.
Mentioned ==
    Stored
    \union {chunkKey(toWorker[i].cx, toWorker[i].cz) : i \in 1..Len(toWorker)}
    \union {chunkKey(fromWorker[i].cx, fromWorker[i].cz) :
                i \in {j \in 1..Len(fromWorker) : fromWorker[j].type # "error"}}

(***************************************************************************)
(* C1.  Deferred-mesh retry.  A chunk that holds block data, was deferred  *)
(* in DATA_LOADED and has never been meshed, and whose four lateral        *)
(* neighbours now all hold block data, reaches MESHING through the         *)
(* delivery of worker completions alone.  A state the claim allows         *)
(* therefore still has a completion to deliver whenever such a chunk       *)
(* waits: with nothing in transit no completion can ever dispatch it.      *)
(***************************************************************************)
C1_DeferredChunkIsRetried ==
    \A key \in Stored :
        ( /\ chunkStorage[key].state = DATA_LOADED
          /\ chunkStorage[key].blocks # null
          /\ chunkStorage[key].mesh = null
          /\ AllNeighboursHoldData(key) )
        => (toWorker # << >> \/ fromWorker # << >>)

(***************************************************************************)
(* C2.  Every mesh request posted by a step belongs to a chunk that holds  *)
(* a block grid and is put in MESHING, all four lateral neighbours have a  *)
(* record with a block grid in state >= DATA_LOADED, and the request       *)
(* carries the chunk's grid and the four neighbour grids.                  *)
(***************************************************************************)
MeshRequestGated(m) ==
    LET key == chunkKey(m.cx, m.cz) IN
    /\ key \in DOMAIN chunkStorage'
    /\ chunkStorage'[key].state = MESHING
    /\ chunkStorage'[key].blocks # null
    /\ m.blocks = chunkStorage'[key].blocks
    /\ m.neighbourData # null
    /\ \A i \in 1..Len(requiredOffsets) :
          LET o == requiredOffsets[i]
              n == chunkKey(m.cx + o[1], m.cz + o[2])
          IN  /\ n \in DOMAIN chunkStorage'
              /\ chunkStorage'[n].blocks # null
              /\ chunkStorage'[n].state >= DATA_LOADED
              /\ o \in DOMAIN m.neighbourData
              /\ m.neighbourData[o].blocks = chunkStorage'[n].blocks

C2_MeshDispatchGated ==
    [][\A i \in 1..Len(NewRequests) :
          NewRequests[i].type = "mesh" => MeshRequestGated(NewRequests[i])]_vars

\* A mesh request waits for the worker while its chunk is in MESHING.
C2_Witness ==
    \E i \in 1..Len(toWorker) :
        /\ toWorker[i].type = "mesh"
        /\ chunkKey(toWorker[i].cx, toWorker[i].cz) \in Stored
        /\ chunkStorage[chunkKey(toWorker[i].cx, toWorker[i].cz)].state = MESHING
        /\ AllNeighboursHoldData(chunkKey(toWorker[i].cx, toWorker[i].cz))

(***************************************************************************)
(* C3.  As claimed: a stored chunk whose geometry is non-null is in state  *)
(* READY.                                                                  *)
(***************************************************************************)
C3_GeometryOnlyInReady ==
    \A key \in Stored :
        chunkStorage[key].mesh # null => chunkStorage[key].state = READY

(***************************************************************************)
(* C3, amended.  A stored chunk whose geometry is non-null holds a block   *)
(* grid and is in DATA_LOADED, MESHING or READY; no chunk in LOADING_DATA  *)
(* holds geometry.                                                         *)
(***************************************************************************)
C3_GeometryNeedsData ==
    \A key \in Stored :
        chunkStorage[key].mesh # null =>
            /\ chunkStorage[key].blocks # null
            /\ chunkStorage[key].state \in {DATA_LOADED, MESHING, READY}

\* A chunk that was READY waits in DATA_LOADED and still holds its geometry,
\* which is still in the scene.
C3_Witness ==
    \E key \in Stored :
        /\ chunkStorage[key].mesh # null
        /\ chunkStorage[key].state = DATA_LOADED
        /\ BagIn(chunkStorage[key].mesh, scene)

(***************************************************************************)
(* C4.  Each chunk coordinate has at most one generate task and at most    *)
(* one mesh task dispatched to the worker and not yet answered.            *)
(***************************************************************************)
C4_OneTaskPerChunk ==
    \A key \in Mentioned :
        /\ TasksInFlight("generate", "generated", key) <= 1
        /\ TasksInFlight("mesh", "meshed", key) <= 1

(***************************************************************************)
(* C5.  A 'generated' or 'meshed' completion delivered for a coordinate    *)
(* without a record, or whose record is not in the state that expects it   *)
(* (LOADING_DATA for 'generated', MESHING for 'meshed'), changes no chunk, *)
(* adds nothing to the scene, posts no request and leaves the rebuild      *)
(* queue alone.                                                            *)
(***************************************************************************)
Unexpected(m) ==
    /\ m.type \in {"generated", "meshed"}
    /\ \/ chunkKey(m.cx, m.cz) \notin Stored
       \/ chunkStorage[chunkKey(m.cx, m.cz)].state #
             (IF m.type = "generated" THEN LOADING_DATA ELSE MESHING)

\* The step delivers the oldest answer to worker.onmessage.
Delivers == fromWorker # << >> /\ fromWorker' = Tail(fromWorker)

C5_StaleCompletionDiscarded ==
    [][(Delivers /\ Unexpected(Head(fromWorker)))
          => UNCHANGED <<chunkStorage, meshRebuildQueue, toWorker, scene>>]_vars

\* The next completion to deliver is a 'meshed' for a coordinate whose record
\* was discarded and created again (it is in LOADING_DATA), behind it waits a
\* completion of a coordinate without a record, and the handler leaves the
\* world as it is.
C5_Witness ==
    /\ fromWorker # << >>
    /\ Head(fromWorker).type = "meshed"
    /\ chunkKey(Head(fromWorker).cx, Head(fromWorker).cz) \in Stored
    /\ Unexpected(Head(fromWorker))
    /\ \E i \in 2..Len(fromWorker) :
          /\ fromWorker[i].type = "generated"
          /\ chunkKey(fromWorker[i].cx, fromWorker[i].cz) \notin Stored
    /\ onmessage(Now, Head(fromWorker)) = Now

(***************************************************************************)
(* C6.  When the error answer of a failed task is handled, the chunk of    *)
(* the task is left in its pre-task state: the failure does not move it to *)
(* DATA_LOADED or READY, and it does not stay marked as having the task in *)
(* progress (LOADING_DATA for a generate task, MESHING for a mesh task)    *)
(* unless another such task for it is still in flight.                     *)
(***************************************************************************)
InProgressState(request) == IF request = "generate" THEN LOADING_DATA ELSE MESHING

AnswerOf(request) == IF request = "generate" THEN "generated" ELSE "meshed"

C6_FailedTaskLeavesPreTaskState ==
    [][(Delivers /\ Head(fromWorker).type = "error") =>
          LET task == Head(fromWorker).task
              key == chunkKey(task.cx, task.cz)
          IN  (key \in Stored /\ key \in DOMAIN chunkStorage') =>
                /\ chunkStorage'[key].state \in {DATA_LOADED, READY}
                      => chunkStorage'[key].state = chunkStorage[key].state
                /\ chunkStorage'[key].state = InProgressState(task.type)
                      => TasksIn(toWorker', fromWorker', task.type,
                                 AnswerOf(task.type), key) >= 1]_vars

(***************************************************************************)
(* C7.  After a generate or mesh task of a chunk has failed and the error  *)
(* has been handled, an updateWorld whose active region contains the chunk *)
(* dispatches the work for it again.                                       *)
(***************************************************************************)
Square(playerCX, playerCZ) ==
    {key \in ((playerCX - RENDER_DISTANCE - 1)..(playerCX + RENDER_DISTANCE + 1))
             \X ((playerCZ - RENDER_DISTANCE - 1)..(playerCZ + RENDER_DISTANCE + 1)) :
        /\ key[1] - playerCX <= RENDER_DISTANCE /\ playerCX - key[1] <= RENDER_DISTANCE
        /\ key[2] - playerCZ <= RENDER_DISTANCE /\ playerCZ - key[2] <= RENDER_DISTANCE}

PlayerChunk(p) == <<FloorDiv(p[1], CHUNK_SIZE), FloorDiv(p[2], CHUNK_SIZE)>>

ErrorPending(request, key) ==
    \E i \in 1..Len(fromWorker) :
        /\ fromWorker[i].type = "error"
        /\ fromWorker[i].task.type = request
        /\ chunkKey(fromWorker[i].task.cx, fromWorker[i].task.cz) = key

\* The chunk is marked as having the task in progress, but the task has failed
\* and its error has been handled: nothing for it is in transit any more.
FailedAndHandled(request, key) ==
    /\ key \in Stored
    /\ chunkStorage[key].state = InProgressState(request)
    /\ TasksInFlight(request, AnswerOf(request), key) = 0
    /\ ~ErrorPending(request, key)

C7_FailedTaskRetried ==
    \A p \in PlayerPositions, request \in {"generate", "mesh"} :
        \A key \in Square(PlayerChunk(p)[1], PlayerChunk(p)[2]) :
            FailedAndHandled(request, key) =>
                LET w == updateWorld(Now, p[1], p[2]) IN
                TasksIn(w.toWorker, fromWorker, request, AnswerOf(request), key) >= 1

(***************************************************************************)
(* C8.  As claimed: requestChunkMesh on a chunk in a state in which the    *)
(* request is valid (state >= DATA_LOADED, not MESHING, block grid         *)
(* present), one of whose lateral neighbours is absent or below            *)
(* DATA_LOADED, changes nothing at all.                                    *)
(***************************************************************************)
MeshRequestValid(key) ==
    /\ key \in Stored
    /\ chunkStorage[key].blocks # null
    /\ chunkStorage[key].state >= DATA_LOADED
    /\ chunkStorage[key].state # MESHING

NeighbourMissing(key) ==
    \E n \in LateralNeighbours(key) :
        n \notin Stored \/ chunkStorage[n].state < DATA_LOADED

C8_DeferredRequestIsNoOp ==
    \A key \in Stored :
        (MeshRequestValid(key) /\ NeighbourMissing(key))
            => requestChunkMesh(Now, key[1], key[2]) = Now

(***************************************************************************)
(* C8, amended.  Such a request posts no mesh message and leaves the       *)
(* geometry, the block grids, the scene, the rebuild queue and every other *)
(* chunk unchanged, and the chunk is in DATA_LOADED afterwards: a chunk in *)
(* DATA_LOADED keeps its state, a READY chunk is put back to DATA_LOADED.  *)
(***************************************************************************)
C8_DeferredRequestOnlyDemotes ==
    \A key \in Stored :
        (MeshRequestValid(key) /\ NeighbourMissing(key))
            => requestChunkMesh(Now, key[1], key[2])
                  = [Now EXCEPT !.chunkStorage[key].state = DATA_LOADED]

\* A READY chunk holding geometry has lost a neighbour and is flagged for
\* rebuild: processRebuildQueue is about to request its mesh.
C8_Witness ==
    \E key \in Stored :
        /\ chunkStorage[key].state = READY
        /\ chunkStorage[key].mesh # null
        /\ NeighbourMissing(key)
        /\ meshRebuildQueue # << >>
        /\ Head(meshRebuildQueue) = key

(***************************************************************************)
(* C9.  After updateWorld(px, pz) the stored coordinates are exactly the   *)
(* Chebyshev square of radius RENDER_DISTANCE around the player's chunk:   *)
(* a coordinate of the square that had no record has a fresh record in     *)
(* LOADING_DATA and a generate request, and every record outside the       *)
(* square is gone, whatever its state, with its geometry out of the scene. *)
(***************************************************************************)
FreshChunk(key) ==
    [cx |-> key[1], cz |-> key[2], blocks |-> null, mesh |-> null,
     state |-> LOADING_DATA]

AfterUpdateWorld(p) ==
    LET w == updateWorld(Now, p[1], p[2])
        square == Square(PlayerChunk(p)[1], PlayerChunk(p)[2])
    IN  /\ DOMAIN w.chunkStorage = square
        /\ \A key \in square \ Stored :
              /\ w.chunkStorage[key] = FreshChunk(key)
              /\ TasksIn(w.toWorker, << >>, "generate", "generated", key)
                    = TasksIn(toWorker, << >>, "generate", "generated", key) + 1
        /\ \A key \in Stored \ square :
              chunkStorage[key].mesh # null =>
                 CopiesIn(chunkStorage[key].mesh, w.scene)
                    = CopiesIn(chunkStorage[key].mesh, scene) - 1

C9_ActiveRegionIsSquare ==
    \A p \in FarPositions : AfterUpdateWorld(p)

\* updateWorld is about to discard a READY chunk whose geometry is in the
\* scene and to create records.
C9_Witness ==
    \E p \in FarPositions :
        LET square == Square(PlayerChunk(p)[1], PlayerChunk(p)[2]) IN
        /\ Len(toWorker) + Len(fromWorker) <= MaxInFlight
        /\ square \ Stored # {}
        /\ \E key \in Stored \ square :
              /\ chunkStorage[key].state = READY
              /\ BagIn(chunkStorage[key].mesh, scene)
        /\ AfterUpdateWorld(p)

(***************************************************************************)
(* C10.  requestChunkGeneration for a coordinate that has a record posts   *)
(* nothing and changes nothing; for a coordinate without a record it       *)
(* creates a record in LOADING_DATA without grid and geometry and posts    *)
(* exactly one generate message.  Calling updateWorld a second time with   *)
(* the same position posts no further generate message.                    *)
(***************************************************************************)
GenerateRequests(tw) == SelectSeq(tw, LAMBDA m : m.type = "generate")

Candidates ==
    UNION {Square(PlayerChunk(p)[1], PlayerChunk(p)[2]) : p \in PlayerPositions}

C10_GenerationRequestedOnce ==
    /\ \A key \in Stored : requestChunkGeneration(Now, key[1], key[2]) = Now
    /\ \A key \in Candidates \ Stored :
          requestChunkGeneration(Now, key[1], key[2]) =
             [Now EXCEPT
                !.chunkStorage = @ @@ (key :> FreshChunk(key)),
                !.toWorker = Append(@, [type |-> "generate",
                                        cx |-> key[1], cz |-> key[2]])]
    /\ \A p \in PlayerPositions :
          LET once == updateWorld(Now, p[1], p[2])
              twice == updateWorld(once, p[1], p[2])
          IN  GenerateRequests(twice.toWorker) = GenerateRequests(once.toWorker)

\* Some chunks are stored (in every state from LOADING_DATA to READY) and the
\* player has moved: updateWorld is about to create records, after which a
\* second call creates none.
C10_Witness ==
    /\ \E key \in Stored : chunkStorage[key].state = LOADING_DATA
    /\ \E key \in Stored : chunkStorage[key].state = READY
    /\ \E p \in PlayerPositions :
          LET once == updateWorld(Now, p[1], p[2]) IN
          /\ Len(GenerateRequests(once.toWorker)) > Len(GenerateRequests(toWorker))
          /\ updateWorld(once, p[1], p[2]).toWorker = once.toWorker

(***************************************************************************)
(* C11.  When a 'meshed' completion is delivered for a chunk in MESHING,   *)
(* the chunk becomes READY and holds the delivered geometry, which is in   *)
(* the scene; and a mesh request is attempted for every lateral neighbour  *)
(* that is in DATA_LOADED: the neighbour enters MESHING, with one mesh     *)
(* request posted for it, if all four of its own lateral neighbours hold   *)
(* block data, and otherwise stays in DATA_LOADED with no request.         *)
(***************************************************************************)
MeshRequestsFor(requests, key) ==
    Cardinality({i \in 1..Len(requests) :
                    /\ requests[i].type = "mesh"
                    /\ chunkKey(requests[i].cx, requests[i].cz) = key})

MeshedExpected(m) ==
    /\ m.type = "meshed"
    /\ chunkKey(m.cx, m.cz) \in Stored
    /\ chunkStorage[chunkKey(m.cx, m.cz)].state = MESHING

WaitingNeighbours(key) ==
    {n \in LateralNeighbours(key) :
        n \in Stored /\ chunkStorage[n].state = DATA_LOADED}

C11_MeshedCompletionAdvances ==
    [][(Delivers /\ MeshedExpected(Head(fromWorker))) =>
          LET m == Head(fromWorker)
              key == chunkKey(m.cx, m.cz)
          IN  /\ key \in DOMAIN chunkStorage'
              /\ chunkStorage'[key].state = READY
              /\ chunkStorage'[key].mesh # null
              /\ chunkStorage'[key].mesh.geometryData = m.geometryData
              /\ BagIn(chunkStorage'[key].mesh, scene')
              /\ \A n \in WaitingNeighbours(key) :
                    IF AllNeighboursHoldData(n)
                    THEN /\ chunkStorage'[n].state = MESHING
                         /\ MeshRequestsFor(NewRequests, n) = 1
                    ELSE /\ chunkStorage'[n].state = DATA_LOADED
                         /\ MeshRequestsFor(NewRequests, n) = 0]_vars

\* The completion of a chunk in MESHING is about to be delivered; one of its
\* lateral neighbours waits in DATA_LOADED with all of its own neighbours
\* loaded, another one waits at the edge of the region, and the handler puts
\* the first in MESHING and leaves the second in DATA_LOADED.
C11_Witness ==
    /\ fromWorker # << >>
    /\ MeshedExpected(Head(fromWorker))
    /\ LET m == Head(fromWorker)
           key == chunkKey(m.cx, m.cz)
           after == onmessage(Now, m)
       IN  /\ after.chunkStorage[key].state = READY
           /\ \E n \in WaitingNeighbours(key) :
                 /\ AllNeighboursHoldData(n)
                 /\ after.chunkStorage[n].state = MESHING
           /\ \E n \in WaitingNeighbours(key) :
                 /\ ~AllNeighboursHoldData(n)
                 /\ after.chunkStorage[n].state = DATA_LOADED

(***************************************************************************)
(* Vocabulary of the block queries: the chunk that owns a world cell and   *)
(* the cell's local coordinate, found by search and not by division.       *)
(***************************************************************************)
OwnerIndex(a) ==
    CHOOSE k \in -2..2 : k * CHUNK_SIZE <= a /\ a < (k + 1) * CHUNK_SIZE

Owner(c) == chunkKey(OwnerIndex(c[1]), OwnerIndex(c[3]))

LocalX(c) == c[1] - CHUNK_SIZE * OwnerIndex(c[1])

LocalZ(c) == c[3] - CHUNK_SIZE * OwnerIndex(c[3])

InsideVertically(c) == 0 <= c[2] /\ c[2] < CHUNK_HEIGHT

\* The owning chunk is absent or below DATA_LOADED.
OwnerWithoutData(c) ==
    Owner(c) \notin Stored \/ chunkStorage[Owner(c)].state < DATA_LOADED

WriteRejected(c) == ~InsideVertically(c) \/ OwnerWithoutData(c)

StoredCell(c) ==
    chunkStorage[Owner(c)].blocks[LocalX(c) + 1][c[2] + 1][LocalZ(c) + 1]

\* The write is accepted and changes the cell.
WriteChanges(c, id) == ~WriteRejected(c) /\ StoredCell(c) # id

(***************************************************************************)
(* C12.  A write (addBlock, or removeBlock, which writes BLOCK_AIR) to a   *)
(* cell whose y is outside [0, CHUNK_HEIGHT), or whose owning chunk is     *)
(* absent or below DATA_LOADED, changes nothing: no block grid, no chunk   *)
(* state, no rebuild-queue entry, no request, no geometry.                 *)
(***************************************************************************)
C12_RejectedWriteIsNoOp ==
    \A c \in ProbeCells, id \in ProbeIds :
        WriteRejected(c) => addBlock(Now, c[1], c[2], c[3], id) = Now

\* One cell lies above a chunk that holds data, one in a chunk without a
\* record, one in a chunk still in LOADING_DATA; writes to all three are
\* ignored, while a write to a fourth cell is carried out.
C12_Witness ==
    /\ \E c \in ProbeCells :
          /\ ~InsideVertically(c) /\ ~OwnerWithoutData(c)
          /\ addBlock(Now, c[1], c[2], c[3], BLOCK_STONE) = Now
    /\ \E c \in ProbeCells :
          /\ InsideVertically(c) /\ Owner(c) \notin Stored
          /\ addBlock(Now, c[1], c[2], c[3], BLOCK_STONE) = Now
    /\ \E c \in ProbeCells :
          /\ InsideVertically(c) /\ Owner(c) \in Stored
          /\ chunkStorage[Owner(c)].state = LOADING_DATA
          /\ addBlock(Now, c[1], c[2], c[3], BLOCK_STONE) = Now
    /\ \E c \in ProbeCells :
          /\ WriteChanges(c, BLOCK_STONE)
          /\ addBlock(Now, c[1], c[2], c[3], BLOCK_STONE) # Now

(***************************************************************************)
(* C13.  A write that is accepted and changes its cell adds to the rebuild *)
(* queue exactly the chunks it touches that are at state >= DATA_LOADED    *)
(* and not MESHING, where the chunks touched are the owning chunk and the  *)
(* lateral neighbour behind each chunk face the cell lies on (local x = 0: *)
(* (cx-1,cz); x = CHUNK_SIZE-1: (cx+1,cz); z = 0: (cx,cz-1);               *)
(* z = CHUNK_SIZE-1: (cx,cz+1)).  Nothing else enters the queue and        *)
(* nothing leaves it.                                                      *)
(***************************************************************************)
Touched(c) ==
    LET cx == Owner(c)[1]
        cz == Owner(c)[2]
    IN  {chunkKey(cx, cz)}
        \union (IF LocalX(c) = 0 THEN {chunkKey(cx - 1, cz)} ELSE {})
        \union (IF LocalX(c) = CHUNK_SIZE - 1 THEN {chunkKey(cx + 1, cz)} ELSE {})
        \union (IF LocalZ(c) = 0 THEN {chunkKey(cx, cz - 1)} ELSE {})
        \union (IF LocalZ(c) = CHUNK_SIZE - 1 THEN {chunkKey(cx, cz + 1)} ELSE {})

Flaggable(key) ==
    /\ key \in Stored
    /\ chunkStorage[key].state >= DATA_LOADED
    /\ chunkStorage[key].state # MESHING

QueueKeys(q) == {q[i] : i \in 1..Len(q)}

C13_WriteFlagsTouchedChunks ==
    \A c \in ProbeCells, id \in ProbeIds :
        WriteChanges(c, id) =>
            QueueKeys(addBlock(Now, c[1], c[2], c[3], id).meshRebuildQueue)
               = QueueKeys(meshRebuildQueue)
                    \union {key \in Touched(c) : Flaggable(key)}

\* A write at a chunk boundary is about to flag the owning chunk and a
\* neighbour, neither of which is queued yet, while another neighbour it
\* touches is in MESHING or absent and is not flagged; a write at a
\* non-boundary cell is about to flag the owning chunk alone.
C13_Witness ==
    /\ \E c \in ProbeCells :
          /\ WriteChanges(c, BLOCK_AIR)
          /\ Cardinality({key \in Touched(c) : Flaggable(key)}
                            \ QueueKeys(meshRebuildQueue)) >= 2
          /\ \E key \in Touched(c) : ~Flaggable(key)
          /\ QueueKeys(addBlock(Now, c[1], c[2], c[3], BLOCK_AIR).meshRebuildQueue)
                = QueueKeys(meshRebuildQueue)
                     \union {key \in Touched(c) : Flaggable(key)}
    /\ \E c \in ProbeCells :
          /\ WriteChanges(c, BLOCK_AIR)
          /\ Touched(c) = {Owner(c)}
          /\ QueueKeys(addBlock(Now, c[1], c[2], c[3], BLOCK_AIR).meshRebuildQueue)
                = QueueKeys(meshRebuildQueue) \union {Owner(c)}
          /\ Owner(c) \notin QueueKeys(meshRebuildQueue)

\* In the storage after the write of id to cell c, getBlock of c is id and
\* getBlock of every other cell is what it was.
OnlyCellChanged(after, c, id) ==
    \A d \in ProbeCells :
        getBlock(after, d[1], d[2], d[3])
           = IF d = c THEN id
             ELSE getBlock(chunkStorage, d[1], d[2], d[3])

(***************************************************************************)
(* C14.  getBlock returns BLOCK_AIR for a cell whose y is outside          *)
(* [0, CHUNK_HEIGHT) or whose owning chunk is absent or below DATA_LOADED, *)
(* and otherwise the cell stored at the owning chunk's local coordinate.   *)
(* After an accepted write of id to a cell, getBlock of the cell is id and *)
(* getBlock of every other cell is what it was.                            *)
(***************************************************************************)
C14_GetBlockReadsStoredCell ==
    /\ \A c \in ProbeCells :
          getBlock(chunkStorage, c[1], c[2], c[3])
             = IF WriteRejected(c) THEN BLOCK_AIR ELSE StoredCell(c)
    /\ \A c \in ProbeCells, id \in ProbeIds :
          ~WriteRejected(c) =>
             OnlyCellChanged(addBlock(Now, c[1], c[2], c[3], id).chunkStorage, c, id)

\* A cell of a chunk that holds data reads as bedrock and is about to be
\* overwritten, its chunk has a cell that was overwritten before, and other
\* cells read as air because they lie outside the world or in a chunk without
\* data.
C14_Witness ==
    /\ \E c \in ProbeCells :
          /\ ~WriteRejected(c)
          /\ getBlock(chunkStorage, c[1], c[2], c[3]) = BLOCK_BEDROCK
          /\ getBlock(addBlock(Now, c[1], c[2], c[3], BLOCK_STONE).chunkStorage,
                      c[1], c[2], c[3]) = BLOCK_STONE
          /\ \E d \in ProbeCells :
                /\ Owner(d) = Owner(c)
                /\ InsideVertically(d)
                /\ getBlock(chunkStorage, d[1], d[2], d[3]) = BLOCK_AIR
    /\ \E c \in ProbeCells : InsideVertically(c) /\ OwnerWithoutData(c)
    /\ \E c \in ProbeCells : ~InsideVertically(c) /\ ~OwnerWithoutData(c)

(***************************************************************************)
(* C15.  The scene holds exactly the geometries held by stored chunks, one *)
(* copy of each: every geometry a chunk holds is in the scene once, every  *)
(* geometry in the scene is held by a stored chunk, and the scene has as   *)
(* many geometries as there are chunks holding one.  A superseded geometry *)
(* and the geometry of a discarded record are therefore not in the scene.  *)
(***************************************************************************)
HoldingGeometry == {key \in Stored : chunkStorage[key].mesh # null}

C15_SceneHoldsStoredGeometry ==
    /\ \A key \in HoldingGeometry : CopiesIn(chunkStorage[key].mesh, scene) = 1
    /\ \A g \in BagToSet(scene) : \E key \in HoldingGeometry : chunkStorage[key].mesh = g
    /\ BagCardinality(scene) = Cardinality(HoldingGeometry)

\* A chunk that holds a geometry is being meshed again and the completion about
\* to be delivered carries a different geometry, which replaces the old one in
\* the scene; the same chunk lies outside the region of another player
\* position, and updateWorld for that position takes its geometry out of the
\* scene.
C15_Witness ==
    /\ fromWorker # << >>
    /\ MeshedExpected(Head(fromWorker))
    /\ LET m == Head(fromWorker)
           key == chunkKey(m.cx, m.cz)
           old == chunkStorage[key].mesh
           after == onmessage(Now, m)
       IN  /\ old # null
           /\ old.geometryData # m.geometryData
           /\ BagIn(old, scene)
           /\ ~BagIn(old, after.scene)
           /\ CopiesIn(after.chunkStorage[key].mesh, after.scene) = 1
           /\ BagCardinality(after.scene) = BagCardinality(scene)
           /\ \E p \in FarPositions :
                 /\ key \notin Square(PlayerChunk(p)[1], PlayerChunk(p)[2])
                 /\ updateWorld(Now, p[1], p[2]).scene = EmptyBag

(***************************************************************************)
(* C16.  A coordinate of the active region that has no record (its record  *)
(* was discarded, or it never had one) is recreated from scratch by        *)
(* updateWorld: a fresh record in LOADING_DATA with no block grid and no   *)
(* geometry, one new generate request, no geometry of that chunk in the    *)
(* scene, and no entry for it in the rebuild queue.                        *)
(***************************************************************************)
RecreatedFromScratch(p) ==
    LET w == updateWorld(Now, p[1], p[2]) IN
    \A key \in Square(PlayerChunk(p)[1], PlayerChunk(p)[2]) \ Stored :
        /\ key \in DOMAIN w.chunkStorage
        /\ w.chunkStorage[key] = FreshChunk(key)
        /\ TasksIn(w.toWorker, << >>, "generate", "generated", key)
              = TasksIn(toWorker, << >>, "generate", "generated", key) + 1
        /\ \A g \in BagToSet(w.scene) : g.name # key
        /\ key \notin QueueKeys(w.meshRebuildQueue)

C16_RecreatedFromScratch ==
    \A p \in PlayerPositions : RecreatedFromScratch(p)

(***************************************************************************)
(* C17.  Every stored chunk in state DATA_LOADED, MESHING or READY has a   *)
(* block grid.                                                             *)
(***************************************************************************)
C17_LoadedChunkHasBlocks ==
    \A key \in Stored :
        chunkStorage[key].state \in {DATA_LOADED, MESHING, READY}
            => chunkStorage[key].blocks # null

\* A chunk that was READY is being meshed again and holds an edited grid,
\* another chunk waits in DATA_LOADED with its grid, and a third one is still
\* in LOADING_DATA without one.
C17_Witness ==
    /\ \E key \in Stored :
          /\ chunkStorage[key].state = MESHING
          /\ chunkStorage[key].mesh # null
          /\ chunkStorage[key].blocks # null
          /\ chunkStorage[key].blocks # generateChunkData(key[1], key[2])
    /\ \E key \in Stored :
          /\ chunkStorage[key].state = DATA_LOADED
          /\ chunkStorage[key].blocks # null
    /\ \E key \in Stored :
          /\ chunkStorage[key].state = LOADING_DATA
          /\ chunkStorage[key].blocks = null

(***************************************************************************)
(* Vocabulary of the mesher properties.  A face is named by its outward    *)
(* normal and the set of its four corner points; the faces of a bucket are *)
(* read back from its arrays through the indices.                          *)
(***************************************************************************)
AxisDirections ==
    { <<1, 0, 0>>, <<-1, 0, 0>>, <<0, 1, 0>>, <<0, -1, 0>>, <<0, 0, 1>>, <<0, 0, -1>> }

ChunkCells(m) ==
    (0..(m.chunkSize - 1)) \X (0..(m.chunkHeight - 1)) \X (0..(m.chunkSize - 1))

BlockAt(m, c) == m.blocks[c[1] + 1][c[2] + 1][c[3] + 1]

\* The block next to cell c in direction n: air above and below the world, the
\* wrapped cell of the lateral neighbour's grid beyond a side of the chunk.
AdjacentBlock(m, c, n) ==
    LET x == c[1] + n[1]
        y == c[2] + n[2]
        z == c[3] + n[3]
        last == m.chunkSize
    IN  IF y < 0 \/ y >= m.chunkHeight THEN BLOCK_AIR
        ELSE IF x = -1 THEN m.neighbourData[<<-1, 0>>].blocks[last][y + 1][z + 1]
        ELSE IF x = m.chunkSize THEN m.neighbourData[<<1, 0>>].blocks[1][y + 1][z + 1]
        ELSE IF z = -1 THEN m.neighbourData[<<0, -1>>].blocks[x + 1][y + 1][last]
        ELSE IF z = m.chunkSize THEN m.neighbourData[<<0, 1>>].blocks[x + 1][y + 1][1]
        ELSE m.blocks[x + 1][y + 1][z + 1]

IsOpaque(id, types) ==
    id # BLOCK_AIR /\ id \in DOMAIN types /\ ~types[id].transparent

IsTransparent(id, types) ==
    id # BLOCK_AIR /\ id \in DOMAIN types /\ types[id].transparent

\* The face of the unit cube at cell c that looks in direction n.
Face(c, n) ==
    [normal |-> n,
     corners |-> {<<c[1] + v[1], c[2] + v[2], c[3] + v[3]>> :
                    v \in {u \in {0, 1} \X {0, 1} \X {0, 1} :
                             \A a \in 1..3 :
                                n[a] # 0 => u[a] = (IF n[a] = 1 THEN 1 ELSE 0)}}]

QuadCount(geo) == IF geo = null THEN 0 ELSE Len(geo.indices) \div 6

VertexCount(geo) == IF geo = null THEN 0 ELSE Len(geo.positions) \div 3

IndexCount(geo) == IF geo = null THEN 0 ELSE Len(geo.indices)

Triple(array, v) == <<array[3 * v + 1], array[3 * v + 2], array[3 * v + 3]>>

Quad(geo, k) ==
    [normal |-> Triple(geo.normals, geo.indices[6 * (k - 1) + 1]),
     corners |-> {Triple(geo.positions, geo.indices[6 * (k - 1) + j]) : j \in 1..6}]

Quads(geo) == {Quad(geo, k) : k \in 1..QuadCount(geo)}

\* A mesh request waits for the worker.
MeshRequestWaits == toWorker # << >> /\ Head(toWorker).type = "mesh"

OnlyOpaqueAndAir(m, types) ==
    /\ \A c \in ChunkCells(m) :
          BlockAt(m, c) = BLOCK_AIR \/ IsOpaque(BlockAt(m, c), types)
    /\ \A o \in DOMAIN m.neighbourData, c \in ChunkCells(m) :
          LET id == m.neighbourData[o].blocks[c[1] + 1][c[2] + 1][c[3] + 1]
          IN  id = BLOCK_AIR \/ IsOpaque(id, types)

\* The faces of the opaque blocks of the chunk that look at air.
FacesTowardsAir(m, types) ==
    {Face(c, n) : <<c, n>> \in
        {cn \in ChunkCells(m) \X AxisDirections :
            /\ IsOpaque(BlockAt(m, cn[1]), types)
            /\ AdjacentBlock(m, cn[1], cn[2]) = BLOCK_AIR}}

\* Geometry g holds, in the opaque bucket, one quad of four vertices and six
\* indices for each face of FacesTowardsAir, and nothing else.
EmitsVisibleFaces(g, m, types) ==
    /\ Quads(g.opaque) = FacesTowardsAir(m, types)
    /\ QuadCount(g.opaque) = Cardinality(FacesTowardsAir(m, types))
    /\ VertexCount(g.opaque) = 4 * QuadCount(g.opaque)
    /\ IndexCount(g.opaque) = 6 * QuadCount(g.opaque)
    /\ QuadCount(g.transparent) = 0

\* Geometry g follows the transparency rule at every face between two blocks.
FollowsTransparencyRule(g, m, types) ==
    \A c \in ChunkCells(m), n \in AxisDirections :
        LET current == BlockAt(m, c)
            neighbour == AdjacentBlock(m, c, n)
        IN  /\ (IsOpaque(current, types) /\ IsTransparent(neighbour, types))
                  => /\ Face(c, n) \in Quads(g.opaque)
                     /\ Face(c, n) \notin Quads(g.transparent)
            /\ (IsTransparent(current, types) /\ IsTransparent(neighbour, types))
                  => /\ Face(c, n) \notin Quads(g.opaque)
                     /\ Face(c, n) \notin Quads(g.transparent)

\* Geometry g holds the face of every transparent block that looks at an
\* opaque block, in the transparent bucket.
ShowsTransparentAgainstOpaque(g, m, types) ==
    \A c \in ChunkCells(m), n \in AxisDirections :
        (IsTransparent(BlockAt(m, c), types)
            /\ IsOpaque(AdjacentBlock(m, c, n), types))
          => Face(c, n) \in Quads(g.transparent)

(***************************************************************************)
(* C18.  For grids that hold only opaque solid blocks and air, the mesh    *)
(* builder puts into the opaque bucket exactly one quad (4 vertices, 6     *)
(* indices) for each pair of a solid cell and an axis direction whose      *)
(* adjacent cell is air, and nothing else: 6 quads for an isolated block,  *)
(* 10 for two blocks that share a face, none for an enclosed block.        *)
(***************************************************************************)
C18_MesherEmitsVisibleFaces ==
    MeshRequestWaits =>
        LET m == Head(toWorker) IN
        OnlyOpaqueAndAir(m, MeshBlockTypes) =>
            EmitsVisibleFaces(
                buildMeshGeometryData(m, m.neighbourData, MeshBlockTypes),
                m, MeshBlockTypes)

\* The same statement of the earlier mesher, buildChunkMesh.
BuildChunkMeshEmitsVisibleFaces ==
    MeshRequestWaits =>
        LET m == Head(toWorker) IN
        OnlyOpaqueAndAir(m, MeshBlockTypes) =>
            EmitsVisibleFaces(buildChunkMesh(m, m.neighbourData, MeshBlockTypes),
                              m, MeshBlockTypes)

(***************************************************************************)
(* C19.  Transparency rule.  The face between an opaque block and a        *)
(* transparent (non-air) block next to it is emitted for the opaque block, *)
(* into the opaque bucket; between two transparent blocks, of equal or of  *)
(* different ids, no face is emitted.                                      *)
(***************************************************************************)
C19_MesherTransparencyRule ==
    MeshRequestWaits =>
        LET m == Head(toWorker) IN
        FollowsTransparencyRule(
            buildMeshGeometryData(m, m.neighbourData, MeshBlockTypes),
            m, MeshBlockTypes)

\* The same statement of the earlier mesher, buildChunkMesh.
BuildChunkMeshTransparencyRule ==
    MeshRequestWaits =>
        LET m == Head(toWorker) IN
        FollowsTransparencyRule(buildChunkMesh(m, m.neighbourData, MeshBlockTypes),
                                m, MeshBlockTypes)

(***************************************************************************)
(* C20.  The face of a transparent (non-air) block whose adjacent cell     *)
(* holds an opaque solid block is emitted, into the transparent bucket.    *)
(***************************************************************************)
C20_TransparentFaceAgainstOpaque ==
    MeshRequestWaits =>
        LET m == Head(toWorker) IN
        ShowsTransparentAgainstOpaque(
            buildMeshGeometryData(m, m.neighbourData, MeshBlockTypes),
            m, MeshBlockTypes)

\* The same statement of the earlier mesher, buildChunkMesh.
BuildChunkMeshTransparentAgainstOpaque ==
    MeshRequestWaits =>
        LET m == Head(toWorker) IN
        ShowsTransparentAgainstOpaque(
            buildChunkMesh(m, m.neighbourData, MeshBlockTypes),
            m, MeshBlockTypes)

(***************************************************************************)
(* C29.  For every integer world coordinate, negative ones included,       *)
(* worldToVoxelCoords yields the chunk coordinate floor(x / CHUNK_SIZE)    *)
(* and a local coordinate in [0, CHUNK_SIZE) with cx * CHUNK_SIZE + lx = x *)
(* (the same for z): every world cell has exactly one (chunk, local cell)  *)
(* pair, and the world coordinate the generator computes from such a pair  *)
(* maps back to it, so that getBlock reads the cell the generator wrote.   *)
(***************************************************************************)
\* World coordinates over five chunks, two of them negative.
CoordinateProbes == (-2 * CHUNK_SIZE - 1)..(2 * CHUNK_SIZE + 1)

ChunkProbes == -3..2

LocalProbes == 0..(CHUNK_SIZE - 1)

C29_WorldCellHasOneHome ==
    /\ \A x \in CoordinateProbes, z \in CoordinateProbes :
          LET v == worldToVoxelCoords(x, 0, z) IN
          /\ v.cx * CHUNK_SIZE <= x /\ x < (v.cx + 1) * CHUNK_SIZE
          /\ v.cz * CHUNK_SIZE <= z /\ z < (v.cz + 1) * CHUNK_SIZE
          /\ v.lx \in LocalProbes /\ v.lz \in LocalProbes
          /\ v.cx * CHUNK_SIZE + v.lx = x
          /\ v.cz * CHUNK_SIZE + v.lz = z
          /\ \A c \in ChunkProbes, l \in LocalProbes :
                /\ c * CHUNK_SIZE + l = x => (c = v.cx /\ l = v.lx)
                /\ c * CHUNK_SIZE + l = z => (c = v.cz /\ l = v.lz)
    /\ \A c \in ChunkProbes, l \in LocalProbes :
          LET v == worldToVoxelCoords(c * CHUNK_SIZE + l, 0, c * CHUNK_SIZE + l)
          IN  v.cx = c /\ v.lx = l /\ v.cz = c /\ v.lz = l
    /\ \A key \in Stored, lx \in LocalProbes, lz \in LocalProbes :
          (chunkStorage[key].blocks # null
              /\ chunkStorage[key].state >= DATA_LOADED)
            => getBlock(chunkStorage, key[1] * CHUNK_SIZE + lx, 0,
                        key[2] * CHUNK_SIZE + lz)
                 = Cell(chunkStorage[key].blocks, lx, 0, lz)

\* A chunk with negative coordinates holds its grid, and the cell at world
\* coordinate (-1, 0, -1) is read from the last column of that grid.
C29_Witness ==
    /\ <<-1, -1>> \in Stored
    /\ chunkStorage[<<-1, -1>>].blocks # null
    /\ chunkStorage[<<-1, -1>>].state >= DATA_LOADED
    /\ getBlock(chunkStorage, -1, 0, -1) # BLOCK_AIR
    /\ getBlock(chunkStorage, -1, 0, -1)
         = Cell(chunkStorage[<<-1, -1>>].blocks, CHUNK_SIZE - 1, 0, CHUNK_SIZE - 1)

(***************************************************************************)
(* Vocabulary of the face geometry.                                        *)
(***************************************************************************)
Minus(a, b) == <<a[1] - b[1], a[2] - b[2], a[3] - b[3]>>

Cross(a, b) ==
    << a[2] * b[3] - a[3] * b[2],
       a[3] * b[1] - a[1] * b[3],
       a[1] * b[2] - a[2] * b[1] >>

\* The six indices of quad k of a bucket, and the corners of its triangle t.
QuadIndices(geo, k) == [j \in 1..6 |-> geo.indices[6 * (k - 1) + j]]

TrianglePoints(geo, k, t) ==
    [j \in 1..3 |-> Triple(geo.positions, geo.indices[6 * (k - 1) + 3 * (t - 1) + j])]

\* Cross product of the edges of triangle t in index order.
TriangleNormal(geo, k, t) ==
    LET p == TrianglePoints(geo, k, t)
    IN  Cross(Minus(p[2], p[1]), Minus(p[3], p[1]))

\* Quad k has four vertices o..o+3, the corners of a unit face that looks
\* along their normal, and the indices (o, o+1, o+2) and (o+2, o+1, o+3).
QuadInFacePlane(geo, k, m) ==
    LET o == geo.indices[6 * (k - 1) + 1]
        n == Triple(geo.normals, o)
        points == {Triple(geo.positions, o + j) : j \in 0..3}
    IN  /\ QuadIndices(geo, k) = <<o, o + 1, o + 2, o + 2, o + 1, o + 3>>
        /\ n \in AxisDirections
        /\ \A j \in 0..3 : Triple(geo.normals, o + j) = n
        /\ Cardinality(points) = 4
        /\ \E c \in ChunkCells(m) : points = Face(c, n).corners

\* Both triangles of quad k wind the same way, and their geometric normal is
\* the direction of the face.
QuadWindsAlongNormal(geo, k) ==
    LET n == Triple(geo.normals, geo.indices[6 * (k - 1) + 1])
    IN  /\ TriangleNormal(geo, k, 1) = TriangleNormal(geo, k, 2)
        /\ TriangleNormal(geo, k, 1) = n

\* The two triangles of quad k split the unit face along a diagonal: they share
\* two opposite corners and each has one of the other two.
QuadCoversFace(geo, k) ==
    LET t1 == {TrianglePoints(geo, k, 1)[j] : j \in 1..3}
        t2 == {TrianglePoints(geo, k, 2)[j] : j \in 1..3}
        shared == t1 \cap t2
    IN  /\ Cardinality(t1 \cup t2) = 4
        /\ Cardinality(shared) = 2
        /\ \A a \in shared, b \in shared :
              a # b => Cardinality({i \in 1..3 : a[i] # b[i]}) = 2

Buckets(g) == {b \in {g.opaque, g.transparent} : b # null}

(***************************************************************************)
(* C25.  Each emitted face has 4 vertices, the direction's 4 corners, all  *)
(* in the face plane of that direction, and 2 triangles with the indices   *)
(* (o, o+1, o+2) and (o+2, o+1, o+3); the two triangles wind the same way, *)
(* their geometric normal points along the face's direction, and together  *)
(* they cover the unit face exactly, without overlap.                      *)
(***************************************************************************)
C25_FacesWoundAndCovered ==
    MeshRequestWaits =>
        LET m == Head(toWorker) IN
        \A geo \in Buckets(buildChunkMesh(m, m.neighbourData, MeshBlockTypes)) :
            \A k \in 1..QuadCount(geo) :
                /\ QuadInFacePlane(geo, k, m)
                /\ QuadWindsAlongNormal(geo, k)
                /\ QuadCoversFace(geo, k)

\* The part of C25 about the vertices and the index pattern alone.
BuildChunkMeshQuadsInFacePlane ==
    MeshRequestWaits =>
        LET m == Head(toWorker) IN
        \A geo \in Buckets(buildChunkMesh(m, m.neighbourData, MeshBlockTypes)) :
            \A k \in 1..QuadCount(geo) : QuadInFacePlane(geo, k, m)

\* The part of C25 about the winding alone.
BuildChunkMeshQuadsWindAlongNormal ==
    MeshRequestWaits =>
        LET m == Head(toWorker) IN
        \A geo \in Buckets(buildChunkMesh(m, m.neighbourData, MeshBlockTypes)) :
            \A k \in 1..QuadCount(geo) : QuadWindsAlongNormal(geo, k)

\* The part of C25 about the coverage alone.
BuildChunkMeshQuadsCoverFace ==
    MeshRequestWaits =>
        LET m == Head(toWorker) IN
        \A geo \in Buckets(buildChunkMesh(m, m.neighbourData, MeshBlockTypes)) :
            \A k \in 1..QuadCount(geo) : QuadCoversFace(geo, k)

(***************************************************************************)
(* C26.  The cell adjacent to (x, y, z) as the mesh builder resolves it:   *)
(* air when y lies outside [0, chunkHeight); for local x = -1 or           *)
(* x = chunkSize (resp. z) the cell of the lateral neighbour "-1,0" or     *)
(* "1,0" (resp. "0,-1" or "0,1") at the wrapped local coordinate           *)
(* chunkSize - 1 or 0, same y; air if that neighbour's grid is missing.    *)
(* So the outward face of a solid boundary block is culled exactly when    *)
(* the touching cell of the neighbour chunk is an opaque solid block.      *)
(***************************************************************************)
\* The cell next to c in direction n lies beyond a side of the chunk.
BeyondSide(m, c, n) ==
    \/ c[1] + n[1] \notin 0..(m.chunkSize - 1)
    \/ c[3] + n[3] \notin 0..(m.chunkSize - 1)

\* The neighbour table without the grid of the neighbour at offset o: the
\* entry is absent, or it holds no grid.
WithoutNeighbour(m, o) ==
    { [p \in DOMAIN m.neighbourData \ {o} |-> m.neighbourData[p]],
      [m.neighbourData EXCEPT ![o] = [blocks |-> null]] }

ResolvesAdjacentCell(m) ==
    \A c \in ChunkCells(m), n \in AxisDirections :
        LET resolved(nd) ==
                mesherGetBlock(m.blocks, nd, m.chunkSize, m.chunkHeight,
                               c[1] + n[1], c[2] + n[2], c[3] + n[3])
        IN  /\ resolved(m.neighbourData) = AdjacentBlock(m, c, n)
            /\ (BeyondSide(m, c, n) /\ c[2] + n[2] \in 0..(m.chunkHeight - 1))
                  => /\ resolved(null) = BLOCK_AIR
                     /\ \A nd \in WithoutNeighbour(m, <<n[1], n[3]>>) :
                           resolved(nd) = BLOCK_AIR

\* In geometry g the outward face of every opaque boundary block is missing
\* exactly when the touching cell of the neighbour is an opaque block.
CullsAtBoundary(g, m, types) ==
    \A c \in ChunkCells(m), n \in AxisDirections :
        (IsOpaque(BlockAt(m, c), types) /\ BeyondSide(m, c, n))
          => (Face(c, n) \notin Quads(g.opaque)
                <=> IsOpaque(AdjacentBlock(m, c, n), types))

C26_MesherReadsNeighbourCells ==
    MeshRequestWaits =>
        LET m == Head(toWorker) IN
        /\ ResolvesAdjacentCell(m)
        /\ CullsAtBoundary(buildMeshGeometryData(m, m.neighbourData, MeshBlockTypes),
                           m, MeshBlockTypes)

\* The part of C26 about the resolved cell alone.
MesherResolvesAdjacentCell ==
    MeshRequestWaits => ResolvesAdjacentCell(Head(toWorker))

\* The part of C26 about the culled face, of the earlier mesher buildChunkMesh.
BuildChunkMeshCullsAtBoundary ==
    MeshRequestWaits =>
        LET m == Head(toWorker) IN
        CullsAtBoundary(buildChunkMesh(m, m.neighbourData, MeshBlockTypes),
                        m, MeshBlockTypes)

(***************************************************************************)
(* C28.  In each output bucket taken by itself, the number of vertices is  *)
(* 4 times and the number of indices 6 times the number of faces emitted   *)
(* into that bucket, and every index i satisfies 0 <= i < the vertex count *)
(* of the same bucket; a bucket without faces is returned as null.         *)
(***************************************************************************)
\* The faces the culling rule lets through for the blocks of one kind
\* (transparent or not), as pairs of a cell and a position in the table of
\* directions.
FacesEmitted(m, types, directions, transparent) ==
    {cj \in ChunkCells(m) \X (1..Len(directions)) :
        LET current == BlockAt(m, cj[1])
            neighbour == AdjacentBlock(m, cj[1], directions[cj[2]].dir)
        IN  /\ current # BLOCK_AIR
            /\ current \in DOMAIN types
            /\ types[current].transparent = transparent
            /\ \/ neighbour = BLOCK_AIR
               \/ neighbour \notin DOMAIN types
               \/ types[neighbour].transparent /\ ~transparent}

BucketMatchesFaces(geo, faces) ==
    IF faces = 0 THEN geo = null
    ELSE /\ geo # null
         /\ Len(geo.positions) = 3 * 4 * faces
         /\ Len(geo.normals) = 3 * 4 * faces
         /\ Len(geo.indices) = 6 * faces
         /\ \A i \in 1..Len(geo.indices) :
               0 <= geo.indices[i] /\ geo.indices[i] < 4 * faces

BucketsMatchFaces(g, m, types, directions) ==
    /\ BucketMatchesFaces(g.opaque,
          Cardinality(FacesEmitted(m, types, directions, FALSE)))
    /\ BucketMatchesFaces(g.transparent,
          Cardinality(FacesEmitted(m, types, directions, TRUE)))

C28_BucketsIndexedSeparately ==
    MeshRequestWaits =>
        LET m == Head(toWorker) IN
        /\ BucketsMatchFaces(
              buildMeshGeometryData(m, m.neighbourData, MeshBlockTypes),
              m, MeshBlockTypes, DIRECTIONS)
        /\ BucketsMatchFaces(buildChunkMesh(m, m.neighbourData, MeshBlockTypes),
                             m, MeshBlockTypes, DIRECTIONS_perlin)

\* A request for which buildChunkMesh fills both buckets, with different
\* numbers of faces, and emits the opaque faces between transparent ones (the
\* layers are visited bottom-up); the worker's builder returns two empty
\* buckets for it.
C28_Witness ==
    /\ MeshRequestWaits
    /\ LET m == Head(toWorker)
           g == buildChunkMesh(m, m.neighbourData, MeshBlockTypes)
           w == buildMeshGeometryData(m, m.neighbourData, MeshBlockTypes)
       IN  /\ g.opaque # null /\ g.transparent # null
           /\ QuadCount(g.opaque) # QuadCount(g.transparent)
           /\ BlockAt(m, <<1, 1, 1>>) = BLOCK_STONE
           /\ BlockAt(m, <<1, 0, 1>>) = BLOCK_WATER
           /\ BlockAt(m, <<1, 2, 1>>) = BLOCK_WATER
           /\ w.opaque = null /\ w.transparent = null

(***************************************************************************)
(* The terrain generator.                                                  *)
(***************************************************************************)
\* The answers to generate requests that wait for worker.onmessage.
GeneratedAnswers ==
    {fromWorker[i] : i \in {j \in DOMAIN fromWorker : fromWorker[j].type = "generated"}}

\* The block generateChunkData stored at blocks[lx][wy][lz].
GeneratedBlock(a, lx, wy, lz) == a.blocks[lx + 1][wy + 1][lz + 1]

\* The world coordinates of a column of a generated chunk.
WorldX(a, lx) == a.cx * CHUNK_SIZE + lx
WorldZ(a, lz) == a.cz * CHUNK_SIZE + lz

Columns == (0..(CHUNK_SIZE - 1)) \X (0..(CHUNK_SIZE - 1))

Rows == 0..(CONFIG.CHUNK_HEIGHT - 1)

\* The grid has CHUNK_SIZE x CONFIG.CHUNK_HEIGHT x CHUNK_SIZE cells, indexed
\* [x][y][z].
HasAllCells(blocks) ==
    /\ DOMAIN blocks = 1..CHUNK_SIZE
    /\ \A x \in DOMAIN blocks :
          /\ DOMAIN blocks[x] = 1..CONFIG.CHUNK_HEIGHT
          /\ \A y \in DOMAIN blocks[x] : DOMAIN blocks[x][y] = 1..CHUNK_SIZE

\* C21: every grid the generator returns has CHUNK_SIZE x CHUNK_HEIGHT x
\* CHUNK_SIZE cells, every cell holds AIR or an id of BLOCK_TYPES, and every
\* row below BEDROCK_LEVEL holds bedrock in every column, whatever the noise
\* instances return.
C21_GridIsFullWithBedrockBelow ==
    \A a \in GeneratedAnswers :
        /\ HasAllCells(a.blocks)
        /\ \A c \in Columns, wy \in Rows :
              /\ GeneratedBlock(a, c[1], wy, c[2]) \in DOMAIN BLOCK_TYPES
              /\ wy < BEDROCK_LEVEL
                    => GeneratedBlock(a, c[1], wy, c[2]) = BLOCK_BEDROCK

\* A grid of the full height was returned in which the cave noise is above
\* the threshold in every cell, a column lies under water, and the cell right
\* above a bedrock cell was carved.
C21_Witness ==
    \E a \in GeneratedAnswers :
        /\ CONFIG.CHUNK_HEIGHT = WORLDGEN_CHUNK_HEIGHT
        /\ \A c \in Columns, wy \in Rows : carves(WorldX(a, c[1]), wy, WorldZ(a, c[2]))
        /\ \E c \in Columns :
              /\ GeneratedBlock(a, c[1], 0, c[2]) = BLOCK_BEDROCK
              /\ GeneratedBlock(a, c[1], CAVE_MIN_Y, c[2]) = BLOCK_AIR
              /\ GeneratedBlock(a, c[1], WATER_LEVEL, c[2]) = BLOCK_WATER

\* The selector values getBiomeNoise returned for the columns of the
\* generated chunks.
SelectorsUsed ==
    {getBiomeNoise(WorldX(a, c[1]), WorldZ(a, c[2])) : a \in GeneratedAnswers, c \in Columns}

\* Selector values from -0.1 to 1.1 in steps of 0.025, the centres and the ends
\* of the ranges of the biomes among them.
SelectorProbes == {25 * k : k \in -4..44}

\* The sum of the weights, as a multiple of their common denominator.
WeightSum(weights) ==
    SumTo([i \in 1..Len(BIOMES) |-> weights[BIOMES[i].name].num], Len(BIOMES))

\* One weight per biome, none negative, and the weights add up to 1.
IsDistribution(weights) ==
    /\ DOMAIN weights = BiomeNames
    /\ \A name \in BiomeNames : weights[name].den > 0 /\ weights[name].num >= 0
    /\ \A name, other \in BiomeNames : weights[name].den = weights[other].den
    /\ \A name \in BiomeNames : WeightSum(weights) = weights[name].den

\* No biome reaches the selector: every triangular weight is zero.
OutsideEveryBiome(selector) ==
    \A i \in 1..Len(BIOMES) : Abs(selector - BIOMES[i].noiseCenter) >= BIOMES[i].noiseRadius

\* The weights are 1 for one biome, whose centre is at the least distance from
\* the selector, and 0 for the others.
AllOnNearest(weights, selector) ==
    \E i \in 1..Len(BIOMES) :
        /\ \A j \in 1..Len(BIOMES) :
              Abs(selector - BIOMES[i].noiseCenter) <= Abs(selector - BIOMES[j].noiseCenter)
        /\ weights[BIOMES[i].name].num = weights[BIOMES[i].name].den
        /\ \A j \in 1..Len(BIOMES) : j # i => weights[BIOMES[j].name].num = 0

\* C22: for a selector in [0, 1] and the biomes of BIOMES,
\* calculateBiomeWeights returns one weight per biome, none negative, adding
\* up to 1; for a selector that no biome reaches it returns 1 for the biome
\* with the nearest centre and 0 for the others.
C22_WeightsAreADistribution ==
    \A selector \in SelectorsUsed \union SelectorProbes :
        /\ (selector >= 0 /\ selector <= Milli)
              => IsDistribution(calculateBiomeWeights(selector))
        /\ OutsideEveryBiome(selector)
              => AllOnNearest(calculateBiomeWeights(selector), selector)

\* A chunk was generated whose selector lies in [0, 1] between two biomes:
\* both have a positive weight and the triangular weights do not add up to 1
\* before the division.
C22_Witness ==
    \E selector \in SelectorsUsed :
        /\ selector >= 0 /\ selector <= Milli
        /\ \E i, j \in 1..Len(BIOMES) :
              /\ i # j
              /\ calculateBiomeWeights(selector)[BIOMES[i].name].num > 0
              /\ calculateBiomeWeights(selector)[BIOMES[j].name].num > 0
        /\ calculateBiomeWeights(selector)[BIOMES[1].name].den # Milli

\* A chunk was generated whose selector no biome reaches.
FallbackTaken == \E selector \in SelectorsUsed : OutsideEveryBiome(selector)

\* The column generateChunkData computed for a column of a generated chunk.
ColumnAt(a, c) == columnOf(WorldX(a, c[1]), WorldZ(a, c[2]))

\* The block of a row before any carving: bedrock, the block of the layers
\* of the dominant biome, water above the terrain up to WATER_LEVEL, or air.
Uncarved(column, wy) ==
    IF wy < BEDROCK_LEVEL THEN BLOCK_BEDROCK
    ELSE IF wy <= column.terrainHeight
    THEN getBlockFromLayers(column.layers, column.terrainHeight, wy)
    ELSE IF wy <= WATER_LEVEL THEN BLOCK_WATER
    ELSE BLOCK_AIR

InCaveRows(wy) == wy >= CAVE_MIN_Y /\ wy <= CAVE_MAX_Y

\* The cave noise of the cell, remapped to [0, 1], exceeds CAVE_THRESHOLD.
CaveNoiseAbove(a, c, wy) == carves(WorldX(a, c[1]), wy, WorldZ(a, c[2]))

IsTerrainRow(column, wy) == wy >= BEDROCK_LEVEL /\ wy <= column.terrainHeight

IsWaterRow(column, wy) ==
    wy >= BEDROCK_LEVEL /\ wy > column.terrainHeight /\ wy <= WATER_LEVEL

\* In the column c of the grid, every block of the cave rows above the
\* bedrock, terrain or water, is air where the cave noise exceeds the
\* threshold, and the other rows are as without caves.
EveryBlockCarved(a, c, column) ==
    \A wy \in Rows :
        /\ (/\ InCaveRows(wy) /\ wy >= BEDROCK_LEVEL
            /\ Uncarved(column, wy) # BLOCK_AIR
            /\ CaveNoiseAbove(a, c, wy))
              => GeneratedBlock(a, c[1], wy, c[2]) = BLOCK_AIR
        /\ ~InCaveRows(wy) => GeneratedBlock(a, c[1], wy, c[2]) = Uncarved(column, wy)

\* In the column c of the grid, the terrain cells of the cave rows are air
\* where the cave noise exceeds the threshold, and every other cell is as
\* without caves.
TerrainOnlyCarved(a, c, column) ==
    \A wy \in Rows :
        IF IsTerrainRow(column, wy) /\ InCaveRows(wy) /\ CaveNoiseAbove(a, c, wy)
        THEN GeneratedBlock(a, c[1], wy, c[2]) = BLOCK_AIR
        ELSE GeneratedBlock(a, c[1], wy, c[2]) = Uncarved(column, wy)

WaterKeptTerrainCarved(a, c, column) ==
    /\ \E wy \in Rows :
          /\ IsWaterRow(column, wy) /\ InCaveRows(wy) /\ CaveNoiseAbove(a, c, wy)
          /\ GeneratedBlock(a, c[1], wy, c[2]) = BLOCK_WATER
    /\ \E wy \in Rows :
          /\ IsTerrainRow(column, wy) /\ InCaveRows(wy) /\ CaveNoiseAbove(a, c, wy)
          /\ Uncarved(column, wy) # BLOCK_AIR
          /\ GeneratedBlock(a, c[1], wy, c[2]) = BLOCK_AIR
    /\ \E wy \in Rows :
          /\ IsTerrainRow(column, wy) /\ ~InCaveRows(wy) /\ CaveNoiseAbove(a, c, wy)
          /\ GeneratedBlock(a, c[1], wy, c[2]) # BLOCK_AIR

KeptAtThreshold(a, c, column) ==
    \E wy \in Rows :
        /\ IsTerrainRow(column, wy) /\ InCaveRows(wy)
        /\ caveNoise(WorldX(a, c[1]), wy, WorldZ(a, c[2])) + Milli = 2 * CAVE_THRESHOLD
        /\ GeneratedBlock(a, c[1], wy, c[2]) # BLOCK_AIR

KeepsBlockAtThreshold ==
    \E a \in GeneratedAnswers : \E c \in Columns : KeptAtThreshold(a, c, ColumnAt(a, c))

(***************************************************************************)
(* The noise engine.                                                       *)
(***************************************************************************)
\* The tables of the noise instances of CONFIG.
Tables ==
    { CONFIG.terrainPerlin.permutation, CONFIG.biomePerlin.permutation,
      CONFIG.cavePerlin.permutation }

\* Entries 0 to PERMUTATION_SIZE - 1 hold every number from 0 to
\* PERMUTATION_SIZE - 1 once, and the second half repeats the first.
IsDoubledPermutation(t) ==
    /\ DOMAIN t = 1..TABLE_SIZE
    /\ {t[k] : k \in 1..PERMUTATION_SIZE} = 0..(PERMUTATION_SIZE - 1)
    /\ \A k \in 1..PERMUTATION_SIZE : t[k + PERMUTATION_SIZE] = t[k]

\* Coordinates, in units of 1 / CoordUnit: just below minus the table size,
\* just below 0, 0, 1.5, and the end of the last cell before the wrap.
NoiseProbes ==
    { -(PERMUTATION_SIZE * CoordUnit) - 1, -1, 0, CoordUnit + CoordUnit \div 2,
      PERMUTATION_SIZE * CoordUnit - 1 }

\* Every index that noise() computed lies inside the table.
LooksUpInside(indices) ==
    \A k \in DOMAIN indices : indices[k] >= 0 /\ indices[k] <= TABLE_SIZE - 1

\* One of the indices that noise() computed is the last of the table.
ReadsLastEntry(indices) == \E k \in DOMAIN indices : indices[k] = TABLE_SIZE - 1

\* C30: whatever numbers in [0, 1) the seeded generator returns, the table of
\* a noise instance holds a permutation of 0..255 in its entries 0..255,
\* repeated in its entries 256..511, and every index that noise() computes,
\* for negative coordinates too, lies in 0..511 (256 is PERMUTATION_SIZE
\* here, 512 TABLE_SIZE).
C30_TableIsDoubledPermutation ==
    \A t \in Tables :
        /\ IsDoubledPermutation(t)
        /\ \A x, y, z \in NoiseProbes : LooksUpInside(noiseIndices(t, x, y, z))

\* A chunk at negative coordinates was generated from a shuffled table, and
\* noise() reads the last entry of the table for a point with a negative
\* coordinate.
C30_Witness ==
    /\ \E a \in GeneratedAnswers : a.cx < 0
    /\ \E t \in Tables :
          /\ \E k \in 1..PERMUTATION_SIZE : t[k] # k - 1
          /\ \E x, y, z \in NoiseProbes :
                x < 0 /\ ReadsLastEntry(noiseIndices(t, x, y, z))

(***************************************************************************)
(* Writes and geometry.                                                    *)
(***************************************************************************)
\* The chunk the player stands in when the active region is fixed: the one
\* chunk of the region whose four lateral neighbours lie inside it.
CentreKeys == {PlayerChunk(p) : p \in StillPositions}

\* The grid of the chunk that the mesh request of its geometry carried.
MeshedBlocks(key) == chunkStorage[key].mesh.geometryData.blocks

\* The grids of the lateral neighbours that the request carried are the
\* grids the neighbours hold.
MeshedNeighboursCurrent(key) ==
    \A i \in 1..Len(requiredOffsets) :
        LET o == requiredOffsets[i]
            n == chunkKey(key[1] + o[1], key[2] + o[2])
        IN  HoldsData(n) =>
               chunkStorage[key].mesh.geometryData.neighbourData[o].blocks
                  = chunkStorage[n].blocks

\* The chunk has geometry that was built from grids other than the ones that
\* it and its neighbours hold now: a write came after the request was posted.
GeometryOutdated(key) ==
    /\ key \in Stored
    /\ chunkStorage[key].mesh # null
    /\ \/ MeshedBlocks(key) # chunkStorage[key].blocks
       \/ ~MeshedNeighboursCurrent(key)

\* The chunk is READY with geometry built from the grids that it and its
\* neighbours hold.
GeometryCurrent(key) ==
    /\ key \in Stored
    /\ chunkStorage[key].state = READY
    /\ chunkStorage[key].mesh # null
    /\ MeshedBlocks(key) = chunkStorage[key].blocks
    /\ MeshedNeighboursCurrent(key)

\* The chunk and its four lateral neighbours are loaded.
StaysLoaded(key) == HoldsData(key) /\ AllNeighboursHoldData(key)

\* C23: a write that changes a cell of a chunk is eventually reflected in the
\* geometry of the chunk: while the chunk and its four lateral neighbours
\* stay loaded, the rebuild queue is processed and the worker answers, a
\* chunk whose geometry was built before the write becomes READY with
\* geometry built from a grid that contains it, also when the write was made
\* while the chunk was in MESHING.
C23_WriteReachesGeometry ==
    \A key \in CentreKeys :
        [](GeometryOutdated(key) => <>(GeometryCurrent(key) \/ ~StaysLoaded(key)))

\* Nothing is left that would build geometry again: no task is in flight and
\* the rebuild queue is empty.
Quiescent == toWorker = << >> /\ fromWorker = << >> /\ meshRebuildQueue = << >>

\* The chunk is READY, it and its neighbours are loaded, and its geometry was
\* built from a grid of its own that lacks a write.
WriteLost(key) ==
    /\ key \in Stored
    /\ chunkStorage[key].state = READY
    /\ chunkStorage[key].mesh # null
    /\ StaysLoaded(key)
    /\ MeshedBlocks(key) # chunkStorage[key].blocks

\* The same for a write to a boundary cell of a neighbour.
BoundaryWriteLost(key) ==
    /\ key \in Stored
    /\ chunkStorage[key].state = READY
    /\ chunkStorage[key].mesh # null
    /\ StaysLoaded(key)
    /\ MeshedBlocks(key) = chunkStorage[key].blocks
    /\ ~MeshedNeighboursCurrent(key)

\* No write to a chunk in MESHING is lost for good.
NoWriteIsLost == \A key \in CentreKeys : ~(Quiescent /\ WriteLost(key))

\* No write to the boundary of a neighbour of a chunk in MESHING is lost
\* for good.
NoBoundaryWriteIsLost == \A key \in CentreKeys : ~(Quiescent /\ BoundaryWriteLost(key))

(***************************************************************************)
(* Progress to READY.                                                      *)
(***************************************************************************)
IsReady(key) == key \in Stored /\ chunkStorage[key].state = READY

\* The chunk waits in DATA_LOADED although its four lateral neighbours hold
\* block data.
WaitsWithNeighboursLoaded(key) ==
    /\ key \in Stored
    /\ chunkStorage[key].state = DATA_LOADED
    /\ AllNeighboursHoldData(key)

\* C24: while the active region is fixed and the worker answers every task,
\* every chunk whose four lateral neighbours lie inside the active region
\* eventually reaches READY.
C24_ChunkBecomesReady ==
    \A key \in CentreKeys : [](key \in Stored => <>IsReady(key))

\* The second form of C24: in no state without a task in flight and with an
\* empty rebuild queue does a chunk sit in DATA_LOADED while its four lateral
\* neighbours hold block data.
NoQuiescentWaitingChunk ==
    Quiescent => \A key \in Stored : ~WaitsWithNeighboursLoaded(key)

====
